---- MODULE Spec2Model ----
(***************************************************************************)
(* Project Kisan: WebSocket gateway and connection manager, FarmBot        *)
(* orchestration service, market data sync engine and tool adapters.       *)
(***************************************************************************)
EXTENDS Integers, Sequences, FiniteSets, TLC

(***************************************************************************)
(* Bounds of the model                                                     *)
(***************************************************************************)
\* number of whole seconds the wall clock advances
MaxClock == 1
\* inbound frames read by the gateway, over all connections
MaxMsgs == 2

\* the two WebSocket connections (each is also its own socket)
Conns == {1, 2}
SessionIds == 0..MaxClock

VARIABLES
    \* ---- FarmBotService (farmbot_service.py) ----
    is_initialized,      \* FarmBotService.is_initialized
    service,             \* session_service, main_agent, runner: the
                         \* initialize() call that set each (0: None),
                         \* the calls numbered oldest first
    sessions,            \* conversation sessions held by the session store
    pm,                  \* outcome of the latest process_message call
    \* ---- gateway process (main.py) ----
    started,             \* startup_event has run
    clock,               \* int(datetime.now().timestamp())
    pc,                  \* position of each connection's endpoint task
    sid,                 \* session_id local of each endpoint task
    open,                \* the client side of each socket is still open
    cur,                 \* message being handled by each endpoint task
    handled,             \* handler invocations that have returned, per task
    emitted,             \* frames each task put on a socket, in order
    \* ---- ConnectionManager (websocket_conn.py) ----
    active_connections,  \* session id -> socket
    user_sessions,       \* session id -> metadata
    \* ---- database (mandi_db) and sync engine (mandi_db_generation.py) ----
    market_prices,       \* natural key -> number of rows the database holds
    pending,             \* natural key -> rows added to the session, not flushed
    stats,               \* stats of the store step
    storing,             \* a store step is running
    ingested,            \* records consumed by store steps so far
    store_call,          \* the running or latest _process_and_store_data
                         \* call: records consumed, rows updated and not
                         \* committed, how it ended
    sync_log,            \* DataSyncLog rows, oldest first
    sync_ret,            \* outcome of the latest sync_market_data run
    runs,                \* sync_market_data runs so far
    \* ---- tool adapters (tools/) ----
    tool_result,         \* what the latest adapter call gave its caller
    tool_state,          \* tool_context.state
    \* ---- single operations of the sync engine, the tools and the voice service ----
    call,                \* the latest call of one of them: its inputs and result
    price_rows,          \* natural key -> the fields of its market_prices row
    \* ---- analytics generation (mandi_db_generation.py) ----
    market_analytics,    \* market_analytics rows, by id
    price_data,          \* kind of market_prices row -> number of such rows
    today,               \* the current day, as a day number
    \* ---- the process (main.py) ----
    environ              \* os.environ: variable -> its value

wsVars == <<started, clock, pc, sid, open, cur, handled, emitted,
            active_connections, user_sessions>>
botVars == <<is_initialized, service, sessions, pm>>
dbVars == <<market_prices, pending, stats, storing, ingested, store_call>>
syncVars == <<sync_log, sync_ret, runs>>
toolVars == <<tool_result, tool_state>>
anVars == <<market_analytics, price_data, today>>
fnVars == <<call, price_rows, anVars, environ>>
dataVars == <<dbVars, syncVars, toolVars, fnVars>>
vars == <<wsVars, botVars, dataVars>>

\* no single operation has been called
NoCall == [fn |-> "none"]

(***************************************************************************)
(* ConnectionManager                                                       *)
(***************************************************************************)
\* metadata seeded by connect
NewSessionMeta ==
    [interaction_count |-> 0, last_activity |-> "connect",
     user_preferences |-> 0, user_location |-> 0,
     text_queries |-> 0, image_analyses |-> 0]

MapSet(f, k, v) == [x \in DOMAIN f \cup {k} |-> IF x = k THEN v ELSE f[x]]
MapDel(f, k) == [x \in DOMAIN f \ {k} |-> f[x]]

\* ConnectionManager.connect after a successful accept: both maps are seeded
connect(reg, ws, s) ==
    [ac |-> MapSet(reg.ac, s, ws), us |-> MapSet(reg.us, s, NewSessionMeta)]

\* disconnect that forgets the metadata map
disconnect_connection_only(reg, s) ==
    [ac |-> IF s \in DOMAIN reg.ac THEN MapDel(reg.ac, s) ELSE reg.ac,
     us |-> reg.us]

\* ConnectionManager.disconnect: each map is cleared if it holds the id
disconnect(reg, s) ==
    [ac |-> IF s \in DOMAIN reg.ac THEN MapDel(reg.ac, s) ELSE reg.ac,
     us |-> IF s \in DOMAIN reg.us THEN MapDel(reg.us, s) ELSE reg.us]

Registry == [ac |-> active_connections, us |-> user_sessions]


(***************************************************************************)
(* FarmBotService.process_message                                          *)
(***************************************************************************)
\* number of events of one runner stream
MaxEvents == 2

\* farmbot_service.py:127, :154 and :172 (the three fixed Hindi texts)
DefaultApology == "APOLOGY_UNABLE_NOW"
EscalationApology == "APOLOGY_ESCALATED"
ErrorApology == "APOLOGY_UNABLE_NOW_PLEASE_RETRY"

None == <<>>
Some(x) == <<x>>

\* events a runner stream yields.  author "" is an event without author;
\* tool_calls is the list of called tool names; content is "none" (no
\* content), "text" (first part with text) or "nulltext" (first part whose
\* text is None)
Events ==
    {[author |-> "FarmBot", tool_calls |-> <<"get_weather_forecast",
                                             "get_weather_forecast">>,
      final |-> FALSE, content |-> "none", escalate |-> FALSE],
     [author |-> "market_specialist", tool_calls |-> <<>>,
      final |-> TRUE, content |-> "text", escalate |-> FALSE],
     [author |-> "", tool_calls |-> <<>>,
      final |-> TRUE, content |-> "nulltext", escalate |-> FALSE],
     [author |-> "FarmBot", tool_calls |-> <<>>,
      final |-> TRUE, content |-> "none", escalate |-> TRUE],
     [author |-> "", tool_calls |-> <<>>,
      final |-> TRUE, content |-> "none", escalate |-> FALSE]}

SeqsUpTo(S, n) == UNION {[1..k -> S] : k \in 0..n}
Range(q) == {q[i] : i \in DOMAIN q}

\* initial state of a new conversation session (its timestamp is left out);
\* capabilities: the flags set to True
InitialState(user_context) ==
    [initialized |-> TRUE, user_context |-> user_context, message_count |-> 0,
     capabilities |-> {"weather_forecasting", "market_analysis",
                       "crop_health_diagnosis", "government_schemes",
                       "image_analysis"},
     interaction_history |-> <<>>]

\* a session step that writes the initial state whether or not the session
\* is there
ensure_session_exists_overwrites(store, s, user_context, get_fails, create_fails) ==
    IF get_fails \/ create_fails THEN store
    ELSE MapSet(store, s, InitialState(user_context))

\* _ensure_session_exists: the store after the call (a failure of the lookup
\* or of the creation is logged and swallowed)
ensure_session_exists(store, s, user_context, get_fails, create_fails) ==
    IF get_fails THEN store
    ELSE IF s \in DOMAIN store THEN store
    ELSE IF create_fails THEN store
    ELSE MapSet(store, s, InitialState(user_context))

\* text chosen from the final event
FinalText(e) ==
    IF e.content # "none"
    THEN (IF e.content = "text" THEN "reply" ELSE "None")
    ELSE IF e.escalate THEN EscalationApology
    ELSE DefaultApology

\* the async-for loop over runner events; raise_at = i means that the stream
\* raises instead of yielding its i-th item (0: it never raises)
RECURSIVE RunLoop(_, _, _, _, _)
RunLoop(events, i, raise_at, agent_used, tools_called) ==
    IF raise_at = i
    THEN [raised |-> TRUE, final_response |-> DefaultApology,
          agent_used |-> agent_used, tools_called |-> tools_called]
    ELSE IF i > Len(events)
    THEN [raised |-> FALSE, final_response |-> DefaultApology,
          agent_used |-> agent_used, tools_called |-> tools_called]
    ELSE LET e == events[i]
             agent2 == IF e.author # "" THEN e.author ELSE agent_used
             tools2 == tools_called \o e.tool_calls
         IN  IF e.final
             THEN [raised |-> FALSE, final_response |-> FinalText(e),
                   agent_used |-> agent2, tools_called |-> tools2]
             ELSE RunLoop(events, i + 1, raise_at, agent2, tools2)

\* the except clause of process_message
ErrorResponse(s) ==
    [response |-> ErrorApology, session_id |-> s, agent_used |-> "None",
     tools_called |-> None]

\* an except clause that lets the exception go on to the caller
except_clause_reraises(s, store) ==
    [raised |-> TRUE, response |-> ErrorResponse(s), store |-> store]

\* the except clause of process_message: the apology is returned
except_clause(s, store) ==
    [raised |-> FALSE, response |-> ErrorResponse(s), store |-> store]

\* runner.run_async consumed by the loop; the runner refuses a session its
\* session service does not hold.  detached: the runner was built on an
\* earlier session service than self.session_service, and what it finds
\* there is part of env
runner_run(store, s, env, detached) ==
    IF ~detached /\ s \notin DOMAIN store
    THEN RunLoop(env.events, 1, 1, "None", <<>>)
    ELSE RunLoop(env.events, 1, env.raise_at, "None", <<>>)

\* process_message: [raised, response, store]
\* env = [get_fails, create_fails, content_fails, events, raise_at];
\* content_fails: the message content cannot be prepared
process_message(init, svc, store, s, user_context, env) ==
    IF ~init
    THEN [raised |-> TRUE, response |-> ErrorResponse(s), store |-> store]
    ELSE LET store2 == ensure_session_exists(store, s, user_context,
                                             env.get_fails, env.create_fails)
             run == runner_run(store2, s, env,
                               svc.runner # svc.session_service)
             \* ChatResponse(response: str) rejects a None text
             failed == env.content_fails \/ run.raised
                          \/ run.final_response = "None"
         IN  IF failed
             THEN except_clause(s, store2)
             ELSE [raised |-> FALSE,
                   response |-> [response |-> run.final_response,
                                 session_id |-> s,
                                 agent_used |-> run.agent_used,
                                 tools_called |-> Some(Range(run.tools_called))],
                   store |-> store2]

\* the step of initialize() that raises (0: none)
InitSteps == 0..3

\* __init__: nothing is set
\* raised: the latest initialize() call raised
NoService == [session_service |-> 0, main_agent |-> 0, runner |-> 0,
              raised |-> FALSE]

\* initialize: a fresh session service, then the agent, then the runner,
\* then is_initialized = True.  fail_at is the step that raises (1: session
\* service, 2: agent, 3: runner, 0: none); the exception is re-raised and
\* what the earlier steps assigned stays assigned
initialize(init, svc, store, fail_at) ==
    LET n == svc.session_service + 1
        reached(step) == fail_at = 0 \/ fail_at > step
        session_service == IF reached(1) THEN n ELSE svc.session_service
        main_agent == IF reached(2) THEN n ELSE svc.main_agent
        runner == IF reached(3) THEN n ELSE svc.runner
        \* calls that left no component are not numbered
        number(k) ==
            Cardinality({c \in {session_service, main_agent, runner} \ {0} :
                            c <= k})
    IN  [is_initialized |-> IF fail_at = 0 THEN TRUE ELSE init,
         service |-> [session_service |-> number(session_service),
                      main_agent |-> number(main_agent),
                      runner |-> number(runner),
                      raised |-> fail_at # 0],
         sessions |-> IF reached(1) THEN <<>> ELSE store,
         raised |-> fail_at # 0]

\* response_type classification of process_message_with_voice
ResponseType(tools) ==
    IF tools = None THEN "general"
    ELSE IF "get_weather_forecast" \in tools[1] THEN "weather"
    ELSE IF "get_market_prices" \in tools[1] THEN "market"
    ELSE "general"

\* process_message_with_voice: the same processing, then the result map the
\* gateway reads (text_response, agent_used, tools_called, response_type)
process_message_with_voice(init, svc, store, s, user_context, env) ==
    LET r == process_message(init, svc, store, s, user_context, env)
    IN  [raised |-> r.raised,
         result |-> [text_response |-> r.response.response,
                     agent_used |-> r.response.agent_used,
                     tools_called |-> r.response.tools_called,
                     response_type |-> ResponseType(r.response.tools_called)],
         store |-> r.store]


(***************************************************************************)
(* Web/API gateway: /ws/chat endpoint and its message handler              *)
(***************************************************************************)
\* inbound frames: a text query that may carry user_location and
\* user_preferences, or an image query with or without image_data
Messages ==
    {m \in [type : {"text"}, image_data : {FALSE}, user_location : BOOLEAN,
            user_preferences : BOOLEAN] :
        m.user_location = m.user_preferences}
    \cup
    [type : {"image"}, image_data : BOOLEAN, user_location : {FALSE},
     user_preferences : {FALSE}]

RECURSIVE SumOver(_, _)
SumOver(f, S) ==
    IF S = {} THEN 0
    ELSE LET x == CHOOSE y \in S : TRUE IN f[x] + SumOver(f, S \ {x})

\* frames read so far
TotalRead == SumOver([c \in Conns |-> cur[c].k], Conns)

\* what the service meets during a call made by the gateway: a stream
\* that ends with a text, or content that cannot be prepared
GatewayEnvs ==
    {[get_fails |-> FALSE, create_fails |-> FALSE, content_fails |-> FALSE,
      raise_at |-> 0,
      events |-> <<[author |-> "FarmBot", tool_calls |-> <<"get_market_prices">>,
                    final |-> TRUE, content |-> "text", escalate |-> FALSE]>>],
     [get_fails |-> FALSE, create_fails |-> FALSE, content_fails |-> TRUE,
      raise_at |-> 0, events |-> <<>>]}

SendPcs == {"send_thinking", "send_response", "send_imgerr", "send_error"}
SentPcs == {"sent_thinking", "sent_response", "sent_imgerr", "sent_error"}
FrameType(p) ==
    CASE p \in {"send_thinking", "sent_thinking"} -> "thinking"
      [] p \in {"send_response", "sent_response"} -> "response"
      [] OTHER -> "error"
SentOf(p) ==
    CASE p = "send_thinking" -> "sent_thinking"
      [] p = "send_response" -> "sent_response"
      [] p = "send_imgerr" -> "sent_imgerr"
      [] OTHER -> "sent_error"

\* keys of an outbound frame
FrameFields(t) ==
    IF t = "response"
    THEN {"type", "content", "agent_used", "tools_called", "response_type",
          "session_id", "timestamp"}
    ELSE {"type", "content", "session_id"}

\* send_message without its try/except: a failed send_text raises
send_text_step_unguarded(ac, s, isOpen) ==
    IF s \notin DOMAIN ac THEN "return"
    ELSE IF isOpen[ac[s]] THEN "sent"
    ELSE "raise"

\* send_message up to its await: "return" when the id is not registered,
\* "sent" when send_text succeeded, "caught" when it raised
send_text_step(ac, s, isOpen) ==
    IF s \notin DOMAIN ac THEN "return"
    ELSE IF isOpen[ac[s]] THEN "sent"
    ELSE "caught"

\* send_message after its await: the last_activity update, whose KeyError
\* is caught when the metadata is gone
send_done_step(us, s) ==
    IF s \in DOMAIN us THEN "updated" ELSE "caught"

\* the variables startup_event assigns, and what a variable can hold:
\* nothing, the empty string or a key
EnvKeys == {"GOOGLE_API_KEY", "WEATHER_API_KEY", "ELEVENLABS_API_KEY"}
EnvValues == {"unset", "", "PASTE-YOUR-API-KEY-HERE"}

\* startup_event: initialize() succeeds and the keys are assigned, or its
\* failure is printed and dropped
Startup(fail_at) ==
    /\ ~started
    /\ started' = TRUE
    /\ LET r == initialize(is_initialized, service, sessions, fail_at)
       IN  /\ is_initialized' = r.is_initialized
           /\ service' = r.service
           /\ sessions' = r.sessions
    /\ environ' = IF fail_at = 0
                  THEN [k \in EnvKeys |-> "PASTE-YOUR-API-KEY-HERE"]
                  ELSE environ
    /\ UNCHANGED <<dbVars, syncVars, toolVars, call, price_rows, anVars, clock, pc, sid, open, cur, handled, emitted,
                   active_connections, user_sessions, pm>>

\* the clock is read by Connect alone: it is advanced while a connection is
\* still to come
Tick ==
    /\ clock < MaxClock
    /\ \E c \in Conns : pc[c] = "new"
    /\ clock' = clock + 1
    /\ UNCHANGED <<dataVars, started, pc, sid, open, cur, handled, emitted,
                   active_connections, user_sessions, botVars>>

\* the endpoint task ends: disconnect(session_id) in an except clause
EndTask(c, s) ==
    /\ active_connections' = disconnect(Registry, s).ac
    /\ user_sessions' = disconnect(Registry, s).us
    /\ pc' = [pc EXCEPT ![c] = "closed"]
    /\ open' = open

\* session id from the whole-second clock, then ConnectionManager.connect
Connect(c, accept_ok) ==
    /\ started
    /\ pc[c] = "new"
    /\ \A d \in Conns : d < c => pc[d] # "new"   \* connections are numbered in arrival order
    /\ sid' = [sid EXCEPT ![c] = clock]
    /\ IF accept_ok
       THEN /\ active_connections' = connect(Registry, c, clock).ac
            /\ user_sessions' = connect(Registry, c, clock).us
            /\ pc' = [pc EXCEPT ![c] = "recv"]
            /\ open' = open
       ELSE EndTask(c, clock)
    /\ UNCHANGED <<dataVars, started, clock, cur, handled, emitted, botVars>>

\* an endpoint that reads on while the orchestration call is in flight
ReadGuard_background(c) == pc[c] \in {"recv", "process"}

\* the endpoint reads the next frame only between two handler invocations
ReadGuard(c) == pc[c] = "recv"

\* receive_text, the metadata update and the synchronous start of
\* handle_default_query_with_voice up to its first await
Receive(c, m) ==
    /\ ReadGuard(c)
    /\ open[c]
    /\ TotalRead < MaxMsgs
    /\ LET s == sid[c]
           k == cur[c].k + 1
       IN  IF s \notin DOMAIN user_sessions
           THEN \* KeyError on user_sessions[session_id]
                /\ cur' = [cur EXCEPT ![c] = [@ EXCEPT !.k = k, !.type = m.type]]
                /\ EndTask(c, s)
           ELSE LET u0 == user_sessions[s]
                    u1 == IF m.user_location
                          THEN [u0 EXCEPT !.user_location = c] ELSE u0
                    u2 == IF m.user_preferences
                          THEN [u1 EXCEPT !.user_preferences = c] ELSE u1
                    u3 == [u2 EXCEPT !.interaction_count = @ + 1,
                                     !.last_activity = "recv"]
                IN  /\ user_sessions' = [user_sessions EXCEPT ![s] = u3]
                    /\ cur' = [cur EXCEPT ![c] =
                                 [k |-> k, type |-> m.type,
                                  user_context |->
                                      [user_location |-> u3.user_location,
                                       user_preferences |-> u3.user_preferences]]]
                    /\ pc' = [pc EXCEPT ![c] =
                                 IF m.type = "image"
                                 THEN (IF m.image_data THEN "process"
                                       ELSE "send_imgerr")
                                 ELSE "send_thinking"]
                    /\ UNCHANGED <<active_connections, open>>
    /\ UNCHANGED <<dataVars, started, clock, sid, handled, emitted, botVars>>

\* control after send_message returned (raised = FALSE) or raised; us is the
\* metadata map as send_message left it
AfterSend(c, p, raised, us) ==
    LET s == sid[c]
        t == FrameType(p)
    IN  IF raised
        THEN IF p \in {"send_error", "sent_error"}
             THEN \* raised inside the handler's except clause
                  /\ EndTask(c, s)
                  /\ handled' = handled
             ELSE /\ pc' = [pc EXCEPT ![c] = "send_error"]
                  /\ user_sessions' = us
                  /\ UNCHANGED <<active_connections, open, handled>>
        ELSE IF t = "thinking"
        THEN /\ pc' = [pc EXCEPT ![c] = "process"]
             /\ user_sessions' = us
             /\ UNCHANGED <<active_connections, open, handled>>
        ELSE /\ pc' = [pc EXCEPT ![c] = "recv"]
             /\ handled' = [handled EXCEPT ![c] = @ + 1]
             /\ UNCHANGED <<active_connections, open>>
             /\ IF t = "response" /\ s \in DOMAIN us
                THEN user_sessions' =
                       [us EXCEPT ![s] =
                          IF cur[c].type = "image"
                          THEN [@ EXCEPT !.image_analyses = @ + 1]
                          ELSE [@ EXCEPT !.text_queries = @ + 1]]
                ELSE user_sessions' = us

\* send_message, first half: look the socket up and await send_text
SendText(c) ==
    /\ pc[c] \in SendPcs
    /\ LET r == send_text_step(active_connections, sid[c], open)
       IN  IF r = "sent"
           THEN /\ emitted' = [emitted EXCEPT ![c] = Append(@,
                                  [type |-> FrameType(pc[c]), msg |-> cur[c].k,
                                   to |-> active_connections[sid[c]]])]
                /\ pc' = [pc EXCEPT ![c] = SentOf(pc[c])]
                /\ UNCHANGED <<active_connections, user_sessions, open,
                               handled>>
           ELSE /\ emitted' = emitted
                /\ AfterSend(c, pc[c], r = "raise", user_sessions)
    /\ UNCHANGED <<dataVars, started, clock, sid, cur, botVars>>

\* send_message, second half: last_activity, then back in the handler
SendDone(c) ==
    /\ pc[c] \in SentPcs
    /\ LET r == send_done_step(user_sessions, sid[c])
           us == IF r = "updated"
                 THEN [user_sessions EXCEPT ![sid[c]].last_activity = "send"]
                 ELSE user_sessions
       IN  AfterSend(c, pc[c], r = "raise", us)
    /\ UNCHANGED <<dataVars, started, clock, sid, cur, emitted, botVars>>

\* await farmbot_agent.process_message_with_voice(...)
Process(c, env) ==
    /\ pc[c] = "process"
    /\ LET r == process_message_with_voice(is_initialized, service, sessions,
                                           sid[c],
                                           cur[c].user_context, env)
       IN  /\ sessions' = r.store
           /\ pc' = [pc EXCEPT ![c] = IF r.raised THEN "send_error"
                                      ELSE "send_response"]
    /\ UNCHANGED <<dataVars, is_initialized, service, pm, started, clock, sid, open, cur, handled,
                   emitted, active_connections, user_sessions>>

\* the client goes away
ClientClose(c) ==
    /\ pc[c] \notin {"new", "closed"}
    /\ open[c]
    /\ open' = [open EXCEPT ![c] = FALSE]
    /\ UNCHANGED <<dataVars, started, clock, pc, sid, cur, handled, emitted,
                   active_connections, user_sessions, botVars>>

\* receive_text raises WebSocketDisconnect
RecvDisconnect(c) ==
    /\ pc[c] = "recv"
    /\ ~open[c]
    /\ EndTask(c, sid[c])
    /\ UNCHANGED <<dataVars, started, clock, sid, cur, handled, emitted, botVars>>

NoPM == [called |-> FALSE, raised |-> FALSE, init |-> FALSE, s |-> 0,
         failed |-> FALSE, response |-> ErrorResponse(0),
         user_context |-> <<>>, session_error |-> FALSE]

InitBot ==
    /\ is_initialized = FALSE
    /\ service = NoService
    /\ sessions = <<>>
    /\ pm = NoPM

InitWS ==
    /\ started = FALSE
    /\ clock = 0
    /\ pc = [c \in Conns |-> "new"]
    /\ sid = [c \in Conns |-> 0]
    /\ open = [c \in Conns |-> TRUE]
    /\ cur = [c \in Conns |-> [k |-> 0, type |-> "text",
                                user_context |-> [user_location |-> 0,
                                                  user_preferences |-> 0]]]
    /\ handled = [c \in Conns |-> 0]
    /\ emitted = [c \in Conns |-> <<>>]
    /\ active_connections = <<>>
    /\ user_sessions = <<>>

NextWS ==
    \/ \E fail_at \in InitSteps : Startup(fail_at)
    \/ Tick
    \/ \E c \in Conns, ok \in BOOLEAN : Connect(c, ok)
    \/ \E c \in Conns, m \in Messages : Receive(c, m)
    \/ \E c \in Conns : SendText(c)
    \/ \E c \in Conns : SendDone(c)
    \/ \E c \in Conns, env \in GatewayEnvs : Process(c, env)
    \/ \E c \in Conns : ClientClose(c)
    \/ \E c \in Conns : RecvDisconnect(c)



(***************************************************************************)
(* FarmBotService driven directly                                          *)
(***************************************************************************)
\* session ids the service is called with
KnownSessions == {0, 1}
\* user_context values the service is called with
UserContexts == {[user_location |-> 0, user_preferences |-> 0],
                 [user_location |-> 1, user_preferences |-> 1]}

\* what the session service and the runner do during one call
BotEnvs ==
    {e \in [get_fails : BOOLEAN, create_fails : BOOLEAN,
            content_fails : BOOLEAN,
            events : SeqsUpTo(Events, MaxEvents),
            raise_at : 0..(MaxEvents + 1)] :
        /\ e.get_fails => ~e.create_fails
        /\ e.content_fails => (e.raise_at = 0 /\ e.events = <<>>)
        \* a call that meets a failure is tried on the short streams
        /\ (e.get_fails \/ e.create_fails \/ e.raise_at # 0)
              => Len(e.events) <= 1}

Initialize(fail_at) ==
    /\ LET r == initialize(is_initialized, service, sessions, fail_at)
       IN  /\ is_initialized' = r.is_initialized
           /\ service' = r.service
           /\ sessions' = r.sessions
    \* pm is the latest call on the service as initialize() left it
    /\ pm' = NoPM
    /\ UNCHANGED <<wsVars, dataVars>>

ProcessMessage(s, user_context, env) ==
    LET r == process_message(is_initialized, service, sessions, s,
                             user_context, env)
        store2 == ensure_session_exists(sessions, s, user_context,
                                        env.get_fails, env.create_fails)
        run == runner_run(store2, s, env,
                          service.runner # service.session_service)
    IN  /\ pm' = [called |-> TRUE, raised |-> r.raised,
                  init |-> is_initialized, s |-> s,
                  failed |-> (env.content_fails \/ run.raised
                                \/ run.final_response = "None"),
                  response |-> r.response, user_context |-> user_context,
                  \* the session service raised in _ensure_session_exists
                  session_error |-> \/ env.get_fails
                                    \/ s \notin DOMAIN sessions
                                          /\ env.create_fails]
        /\ sessions' = r.store
        /\ UNCHANGED <<is_initialized, service, wsVars, dataVars>>

NextBot ==
    \/ \E fail_at \in InitSteps : Initialize(fail_at)
    \/ \E s \in KnownSessions, uc \in UserContexts, env \in BotEnvs :
          \* the long streams are tried on one session and one context
          /\ Len(env.events) > 1 =>
                (s = 0 /\ uc = [user_location |-> 0, user_preferences |-> 0])
          /\ ProcessMessage(s, uc, env)

\* process_message on an initialized service with an empty session store,
\* the runner yielding `events` without raising
StreamMessage(s, user_context, events) ==
    /\ LET r == process_message(TRUE, NoService, <<>>, s, user_context,
                    [get_fails |-> FALSE, create_fails |-> FALSE,
                     content_fails |-> FALSE, events |-> events,
                     raise_at |-> 0])
       IN  call' = [fn |-> "process_message", events |-> events,
                    response |-> r.response, store |-> r.store]
    /\ UNCHANGED <<price_rows, environ, anVars, dbVars, syncVars, toolVars, wsVars,
                   botVars>>

NextStream ==
    \E s \in KnownSessions, uc \in UserContexts,
       events \in SeqsUpTo(Events, MaxEvents) : StreamMessage(s, uc, events)

(***************************************************************************)
(* Database session and the store step of the sync engine                  *)
(***************************************************************************)
\* records consumed by store steps
MaxRecords == 51
\* the batch size of _process_and_store_data
BatchSize == 50

\* natural keys (state, district, market, commodity, arrival date)
Keys == {1, 2}
\* a fetched record: its natural key, or 0 for one _clean_record rejects
Records == Keys \cup {0}
\* records the stepwise store runs consume: those of one key and rejected
\* ones (rows of different keys do not meet in the store step)
StoreRecords == {0, 1}

ZeroRows == [k \in Keys |-> 0]
ZeroStats == [inserted |-> 0, updated |-> 0, skipped |-> 0]

\* _clean_record: None for a record that cannot be used
clean_record(rec) == IF rec = 0 THEN None ELSE Some(rec)

\* db.query(MarketPrice).filter(key).first() is not None.  The session is
\* made with autoflush=False: rows added and not yet flushed are not seen
query_first(db, k) == db.rows[k] > 0

\* Session.commit: the added rows and the updates are flushed and committed
commit(db) ==
    [rows |-> [k \in Keys |-> db.rows[k] + db.pending[k]], pending |-> ZeroRows,
     dirty |-> 0]

\* Session.rollback: the added rows and the updates are dropped.  A commit
\* that raises rolls back as well
rollback(db) == [rows |-> db.rows, pending |-> ZeroRows, dirty |-> 0]

\* the test before the batch commit
batch_full_never(st) == FALSE
batch_full(st) == (st.inserted + st.updated) % BatchSize = 0

\* body of the record loop of _process_and_store_data.  fault: "query", the
\* existence query raises; "commit", the batch commit raises, if there is
\* one; both land in the except clause, which counts the record as skipped
store_record(db, st, rec, fault) ==
    LET cleaned == clean_record(rec)
    IN  IF cleaned = None \/ fault = "query"
        THEN [db |-> db, stats |-> [st EXCEPT !.skipped = @ + 1]]
        ELSE LET k == cleaned[1]
                 found == query_first(db, k)
                 db1 == IF found THEN [db EXCEPT !.dirty = @ + 1]
                        ELSE [db EXCEPT !.pending[k] = @ + 1]
                 st1 == IF found THEN [st EXCEPT !.updated = @ + 1]
                        ELSE [st EXCEPT !.inserted = @ + 1]
             IN  IF ~batch_full(st1) THEN [db |-> db1, stats |-> st1]
                 ELSE IF fault = "commit"
                 THEN [db |-> rollback(db1),
                       stats |-> [st1 EXCEPT !.skipped = @ + 1]]
                 ELSE [db |-> commit(db1), stats |-> st1]

\* the record loop of _process_and_store_data from record i on, no
\* statement of it raising
RECURSIVE store_records(_, _, _, _)
store_records(db, st, records, i) ==
    IF i > Len(records) THEN [db |-> db, stats |-> st]
    ELSE LET r == store_record(db, st, records[i], "none")
         IN  store_records(r.db, r.stats, records, i + 1)

Session ==
    [rows |-> market_prices, pending |-> pending, dirty |-> store_call.dirty]

\* a session is opened and _process_and_store_data starts
BeginStore ==
    /\ ~storing
    /\ ingested < MaxRecords
    /\ storing' = TRUE
    /\ stats' = ZeroStats
    /\ store_call' = [given |-> 0, dirty |-> 0, ret |-> "running"]
    /\ UNCHANGED <<market_prices, pending, ingested, syncVars, toolVars, fnVars,
                   wsVars, botVars>>

\* one turn of the record loop
StoreRecord(rec, fault) ==
    /\ storing
    /\ ingested < MaxRecords
    /\ LET r == store_record(Session, stats, rec, fault)
       IN  /\ market_prices' = r.db.rows
           /\ pending' = r.db.pending
           /\ stats' = r.stats
           /\ store_call' = [store_call EXCEPT !.given = @ + 1,
                                               !.dirty = r.db.dirty]
    /\ ingested' = ingested + 1
    /\ UNCHANGED <<storing, syncVars, toolVars, fnVars, wsVars, botVars>>

\* the record list is exhausted: the final commit, after which stats is
\* returned; when it raises, get_db_session rolls back
EndStore(commit_fails) ==
    /\ storing
    /\ LET db == IF commit_fails THEN rollback(Session) ELSE commit(Session)
       IN  /\ market_prices' = db.rows
           /\ pending' = db.pending
           /\ store_call' = [store_call EXCEPT
                                !.dirty = 0,
                                !.ret = IF commit_fails THEN "raised"
                                        ELSE "returned"]
    /\ storing' = FALSE
    /\ UNCHANGED <<stats, ingested, syncVars, toolVars, fnVars, wsVars, botVars>>

\* a fault is drawn where it changes the turn: the query of a record that
\* was cleaned, the commit of a full batch
NextStore ==
    \/ BeginStore
    \/ \E rec \in StoreRecords, fault \in {"none", "query", "commit"} :
          /\ fault = "query" => rec # 0
          /\ fault = "commit"
                => (rec # 0 /\ (stats.inserted + stats.updated + 1)
                                  % BatchSize = 0)
          /\ StoreRecord(rec, fault)
    \/ \E commit_fails \in BOOLEAN : EndStore(commit_fails)

(***************************************************************************)
(* sync_market_data                                                        *)
(***************************************************************************)
\* sync_market_data runs
MaxRuns == 2
\* records one run fetches
MaxFetched == 2

RecordLists == SeqsUpTo(Records, MaxFetched)
\* where a run fails: nowhere, at the query of the last successful sync, at
\* the final commit of the store step, in the trend or the analytics step,
\* or at the commit that get_db_session makes on leaving the with block
SyncFailures == {"none", "query", "store", "trends", "analytics", "commit"}

\* days_back of a run
MaxDaysBack == 1

\* the dates _fetch_market_data visits: current_date runs from
\* end_date - days_back while current_date <= end_date
RECURSIVE fetch_dates_from(_, _)
fetch_dates_from(current_date, end_date) ==
    IF current_date <= end_date
    THEN <<current_date>> \o fetch_dates_from(current_date + 1, end_date)
    ELSE <<>>
fetch_dates(now, days_back) == fetch_dates_from(now - days_back, now)

HasSuccess(log) == \E i \in DOMAIN log : log[i].status = "success"
\* a sync type for which every earlier run counts as a prior sync
sync_type_of_any_run(log, force) ==
    IF log = <<>> \/ force THEN "full" ELSE "incremental"
\* sync_type, from the latest 'success' entry of the audit log
sync_type_of(log, force) ==
    IF ~HasSuccess(log) \/ force THEN "full" ELSE "incremental"

\* an except clause that writes no audit entry
log_failure_dropped(log, sync_type, log_fails) == log

\* the except clause of sync_market_data: a second session adds the failed
\* entry; if that session's commit fails nothing is written
log_failure(log, sync_type, log_fails) ==
    IF log_fails THEN log
    ELSE Append(log, [status |-> "failed", sync_type |-> sync_type,
                      records_processed |-> 0, records_inserted |-> 0,
                      records_updated |-> 0])

\* the steps of a run, and those a run has entered when it fails at a
\* given one
SyncSteps == <<"fetch", "store", "trends", "analytics">>
steps_until(n) == SubSeq(SyncSteps, 1, n)

\* dates: the dates the run has fetched; steps: the steps it has entered
sync_failed(rows, log, force, sync_type, log_fails, days_back, dates, steps) ==
    [rows |-> rows, log |-> log_failure(log, sync_type, log_fails),
     ret |-> [status |-> "raised", determined |-> sync_type # "unknown",
              force |-> force, log_write_failed |-> log_fails,
              days_back |-> days_back, dates |-> dates, steps |-> steps]]

\* `if not all_records`: the fetch step gave nothing
no_data_received_never(records) == FALSE
no_data_received(records) == records = <<>>

\* sync_market_data: [rows, log, ret]
sync_market_data(rows, log, force, records, fail, log_fails, now, days_back) ==
    IF fail = "query"
    THEN sync_failed(rows, log, force, "unknown", log_fails, days_back, <<>>,
                     <<>>)
    ELSE LET sync_type == sync_type_of(log, force)
             dates == fetch_dates(now, days_back)
             ps == store_records([rows |-> rows, pending |-> ZeroRows,
                                  dirty |-> 0],
                                 ZeroStats, records, 1)
         IN  IF no_data_received(records)
             THEN sync_failed(rows, log, force, sync_type, log_fails,
                              days_back, dates, steps_until(1))
             ELSE IF fail = "store"
             THEN sync_failed(rollback(ps.db).rows, log, force, sync_type,
                              log_fails, days_back, dates, steps_until(2))
             ELSE IF fail \in {"trends", "analytics", "commit"}
             THEN sync_failed(commit(ps.db).rows, log, force, sync_type,
                              log_fails, days_back, dates,
                              steps_until(IF fail = "trends" THEN 3 ELSE 4))
             ELSE [rows |-> commit(ps.db).rows,
                   log |-> Append(log,
                              [status |-> "success", sync_type |-> sync_type,
                               records_processed |-> Len(records),
                               records_inserted |-> ps.stats.inserted,
                               records_updated |-> ps.stats.updated]),
                   ret |-> [status |-> "success", determined |-> TRUE,
                            force |-> force, log_write_failed |-> FALSE,
                            days_back |-> days_back, dates |-> dates,
                            steps |-> steps_until(4)]]

\* sync_market_data, sync_today_data, sync_week_data, force_full_sync
SyncMarketData(force, days_back, records, fail, log_fails) ==
    /\ runs < MaxRuns
    /\ ~storing
    /\ \E r \in {sync_market_data(market_prices, sync_log, force, records,
                                   fail, log_fails, today, days_back)} :
           /\ market_prices' = r.rows
           /\ sync_log' = r.log
           /\ sync_ret' = [k \in DOMAIN sync_ret |-> r.ret[k]]
    /\ runs' = runs + 1
    /\ UNCHANGED <<pending, stats, storing, ingested, store_call, toolVars,
                   fnVars, wsVars, botVars>>

\* runs of sync_today_data (days_back = 1) and of force_full_sync for one
\* day; log_fails is read only by a run that fails
NextSync ==
    /\ runs < MaxRuns
    /\ \E force \in BOOLEAN, records \in RecordLists, fail \in SyncFailures,
          log_fails \in BOOLEAN :
           /\ log_fails => (fail # "none" \/ records = <<>>)
           /\ SyncMarketData(force, 1, records, fail, log_fails)

\* a run of sync_market_data: the audit log and the rows before and after
\* it, the number of records its fetch step gave, and what it returned
SyncRun(force, days_back, records, fail, log_fails) ==
    /\ call.fn \in {"none", "sync_market_data"}
    /\ LET log == IF call = NoCall THEN <<>> ELSE call.log
           rows == IF call = NoCall THEN ZeroRows ELSE call.rows
           r == sync_market_data(rows, log, force, records, fail,
                                 log_fails, today, days_back)
       IN  /\ Len(log) < MaxRuns
           /\ call' = [fn |-> "sync_market_data", before |-> log,
                       rows_before |-> rows, fetched |-> Len(records),
                       log |-> r.log, rows |-> r.rows, ret |-> r.ret]
    /\ UNCHANGED <<price_rows, environ, anVars, dbVars, syncVars, toolVars,
                   wsVars, botVars>>

NextSyncType ==
    /\ IF call = NoCall THEN TRUE ELSE Len(call.log) < MaxRuns
    /\ \E force \in BOOLEAN, days_back \in 0..MaxDaysBack,
       records \in {<<>>, <<0>>, <<1>>},
       fail \in SyncFailures, log_fails \in BOOLEAN :
        /\ log_fails => (fail # "none" \/ records = <<>>)
        /\ SyncRun(force, days_back, records, fail, log_fails)

(***************************************************************************)
(* Tool adapters                                                           *)
(***************************************************************************)
Locations == {"Pune", "Nashik"}
Commodities == {"Onion", "Wheat"}
Schemes == {"PM-KISAN"}
\* the days argument of get_weather_forecast, around its limits
DayCounts == {0, 1, 10, 11}
QualityGrades == {"high", "medium", "low", "premium"}
\* the weather API: answers, answers with an HTTP error status, cannot be
\* reached, answers with a payload the formatter cannot read
WeatherBackends == {"ok", "http_error", "network_error", "bad_payload"}
\* the database as get_selling_advice finds it
DbStates == {"rows", "empty", "down"}
\* the generative model of the schemes service
SchemeBackends == {"ok", "no_model", "generate_fails"}
\* farmer_profile: a map with fields, an empty map, None
Profiles == {"filled", "empty", "none"}
\* the crop health service: diagnoses, has no model, rejects the image,
\* raises
CropBackends == {"ok", "no_model", "bad_image", "raises"}

Unset == <<>>
EmptyToolState ==
    [last_weather_location |-> Unset, last_weather_forecast |-> Unset,
     last_current_weather |-> Unset, last_advice_commodity |-> Unset,
     last_advice_result |-> Unset, last_advice_params |-> Unset,
     last_eligibility_check |-> Unset,
     last_commodity_search |-> Unset, last_search_result |-> Unset,
     last_price_data |-> Unset, last_analysis_commodity |-> Unset,
     last_analysis_result |-> Unset,
     last_image_analysis |-> Unset, last_analyzed_crop |-> Unset,
     last_disease |-> Unset, last_severity |-> Unset,
     farmer_location |-> Unset]

\* a result map as its caller sees it: status, the language of its message
\* ("hi": Hindi-prefixed, "en": English, "none": no message), what produced
\* it, and whether the call raised instead of returning
Result(tool, status, lang, cause) ==
    [called |-> TRUE, tool |-> tool, status |-> status, lang |-> lang,
     cause |-> cause, raised |-> FALSE]

\* WeatherService.get_forecast / get_current_weather
weather_service(tool, backend) ==
    IF backend = "ok" THEN Result(tool, "success", "none", "none")
    ELSE Result(tool, "error", "en", "exception")

\* tools/weather_tools.py get_weather_forecast: [result, state]
get_weather_forecast(state, has_ctx, location, days, backend) ==
    IF days < 1 \/ days > 10
    THEN [result |-> Result("get_weather_forecast", "error", "en",
                            "validation"),
          state |-> state]
    ELSE LET r == weather_service("get_weather_forecast", backend)
         IN  [result |-> r,
              state |-> IF has_ctx /\ r.status = "success"
                        THEN [state EXCEPT
                                !.last_weather_location = Some(location),
                                !.last_weather_forecast = Some("forecast")]
                        ELSE state]

\* tools/weather_tools.py get_current_weather: [result, state]
get_current_weather(state, has_ctx, location, backend) ==
    LET r == weather_service("get_current_weather", backend)
    IN  [result |-> r,
         state |-> IF has_ctx /\ r.status = "success"
                   THEN [state EXCEPT
                           !.last_weather_location = Some(location),
                           !.last_current_weather = Some("weather")]
                   ELSE state]

\* tools/market_tools.py get_selling_advice: [result, state]
get_selling_advice(state, has_ctx, commodity, quality_grade, db) ==
    LET status == IF db = "down" THEN "error"
                  ELSE IF db = "empty" THEN "no_data"
                  ELSE IF quality_grade \notin {"high", "medium", "low"}
                  THEN "error"          \* KeyError, caught
                  ELSE "success"
        stored == IF status = "success" THEN "advice" ELSE status
        st1 == [state EXCEPT !.last_advice_commodity = Some(commodity),
                             !.last_advice_result = Some(stored)]
        st2 == IF status = "success"
               THEN [st1 EXCEPT !.last_advice_params = Some(quality_grade)]
               ELSE st1
    IN  [result |-> Result("get_selling_advice", status,
                           IF status = "success" THEN "none" ELSE "hi",
                           IF status = "error" THEN "exception" ELSE "none"),
         state |-> IF has_ctx THEN st2 ELSE state]

\* GovernmentSchemesService.check_eligibility
schemes_service_check_eligibility(backend, profile) ==
    IF backend = "no_model"
    THEN Result("check_eligibility", "error", "hi", "validation")
    ELSE IF profile = "none" \/ backend = "generate_fails"
    THEN Result("check_eligibility", "error", "hi", "exception")
    ELSE Result("check_eligibility", "success", "none", "none")

\* tools/government_schemes_tools.py check_eligibility: [result, state]
check_eligibility(state, has_ctx, scheme, profile, backend) ==
    [result |-> schemes_service_check_eligibility(backend, profile),
     state |-> IF has_ctx
               THEN [state EXCEPT !.last_eligibility_check =
                        <<scheme, profile = "filled">>]
               ELSE state]

\* CropHealthService.analyze_crop_image, and the except clause of the
\* adapter for a service that raises
crop_health_service_analyze(backend) ==
    IF backend = "ok"
    THEN Result("analyze_crop_image", "success", "none", "none")
    ELSE Result("analyze_crop_image", "error", "hi",
                IF backend = "raises" THEN "exception" ELSE "validation")

\* tools/crop_health_tools.py analyze_crop_image: [result, state]
analyze_crop_image(state, has_ctx, location, backend) ==
    LET r == crop_health_service_analyze(backend)
    IN  [result |-> r,
         state |-> IF has_ctx /\ r.status = "success"
                   THEN [state EXCEPT
                           !.last_image_analysis = Some("analysis"),
                           !.last_analyzed_crop = Some("crop_identified"),
                           !.last_disease = Some("primary_issue"),
                           !.last_severity = Some("severity_level"),
                           !.farmer_location = Some(location)]
                   ELSE state]

NoResult ==
    [called |-> FALSE, tool |-> "", status |-> "", lang |-> "none",
     cause |-> "none", raised |-> FALSE]

ToolReturns(r) ==
    /\ tool_result' = r.result
    /\ tool_state' = r.state
    /\ UNCHANGED <<fnVars, dbVars, syncVars, wsVars, botVars>>

GetWeatherForecast(has_ctx, location, days, backend) ==
    ToolReturns(get_weather_forecast(tool_state, has_ctx, location, days,
                                     backend))

GetCurrentWeather(has_ctx, location, backend) ==
    ToolReturns(get_current_weather(tool_state, has_ctx, location, backend))

GetSellingAdvice(has_ctx, commodity, quality_grade, db) ==
    ToolReturns(get_selling_advice(tool_state, has_ctx, commodity,
                                   quality_grade, db))

CheckEligibility(has_ctx, scheme, profile, backend) ==
    ToolReturns(check_eligibility(tool_state, has_ctx, scheme, profile,
                                  backend))

AnalyzeCropImage(has_ctx, location, backend) ==
    ToolReturns(analyze_crop_image(tool_state, has_ctx, location, backend))

NextTools ==
    \/ \E c \in BOOLEAN, l \in Locations, b \in CropBackends :
          AnalyzeCropImage(c, l, b)
    \/ \E c \in BOOLEAN, l \in Locations, d \in DayCounts,
          b \in WeatherBackends : GetWeatherForecast(c, l, d, b)
    \/ \E c \in BOOLEAN, l \in Locations, b \in WeatherBackends :
          GetCurrentWeather(c, l, b)
    \/ \E c \in BOOLEAN, m \in Commodities, q \in QualityGrades,
          db \in DbStates : GetSellingAdvice(c, m, q, db)
    \/ \E c \in BOOLEAN, n \in Schemes, f \in Profiles,
          b \in SchemeBackends : CheckEligibility(c, n, f, b)

(***************************************************************************)
(* _clean_record and the rows it lets through                              *)
(***************************************************************************)
\* a float: a number (whole rupees here) or NaN
Num(n) == [nan |-> FALSE, v |-> n]
NaN == [nan |-> TRUE, v |-> 0]
\* float comparison: every comparison with NaN is false
FGt(a, b) == ~a.nan /\ ~b.nan /\ a.v > b.v
FLt(a, b) == ~a.nan /\ ~b.nan /\ a.v < b.v
FLe(a, b) == ~a.nan /\ ~b.nan /\ a.v <= b.v

\* raw price values of the API: blank, text, "nan" and decimal numbers
RawModal == {"", "NR", "nan", "-5", "0", "100"}
RawMin == {"nan", "50", "150"}
RawMax == {"50", "150"}

\* _safe_float: float(value), 0.0 for None, '' and what float() rejects
safe_float(value) ==
    CASE value = "" -> Num(0)
      [] value = "NR" -> Num(0)
      [] value = "nan" -> NaN
      [] value = "-5" -> Num(-5)
      [] value = "0" -> Num(0)
      [] value = "50" -> Num(50)
      [] value = "100" -> Num(100)
      [] value = "150" -> Num(150)

\* str.strip
strip(str) ==
    CASE str = " MH " -> "MH"
      [] str = " Onion " -> "Onion"
      [] str = "  " -> ""
      [] OTHER -> str

\* datetime.strptime over the five formats: the date, or None
parse_date(str) == IF str = "01-06-2024" THEN Some("2024-06-01") ELSE None

\* raw records: a required field is absent (None) or a string
RawRecords ==
    [arrival_date : {"01-06-2024", "June 1"},
     state : {Some(" MH "), None},
     district : {Some("Nashik"), Some("")},
     market : {Some("Lasalgaon"), Some("  ")},
     commodity : {Some("Onion"), Some(" Onion "), Some("Wheat"), Some("  ")},
     min_price : RawMin, max_price : RawMax, modal_price : RawModal]

\* not record.get(field) or not record[field].strip()
field_blank(f) == f = None \/ f[1] = "" \/ strip(f[1]) = ""

\* _clean_record: None, or Some(cleaned fields)
clean_record_fields(record) ==
    LET arrival_date == parse_date(record.arrival_date)
        min_price == safe_float(record.min_price)
        max_price == safe_float(record.max_price)
        modal_price == safe_float(record.modal_price)
    IN  IF arrival_date = None THEN None
        ELSE IF \/ field_blank(record.state) \/ field_blank(record.district)
                \/ field_blank(record.market) \/ field_blank(record.commodity)
        THEN None
        ELSE IF FLe(modal_price, Num(0)) THEN None
        ELSE Some([state |-> strip(record.state[1]),
                   district |-> strip(record.district[1]),
                   market |-> strip(record.market[1]),
                   commodity |-> strip(record.commodity[1]),
                   arrival_date |-> arrival_date[1],
                   min_price |-> IF FGt(min_price, modal_price)
                                 THEN modal_price ELSE min_price,
                   max_price |-> IF FLt(max_price, modal_price)
                                 THEN modal_price ELSE max_price,
                   modal_price |-> modal_price])

\* natural key of a cleaned record
KeyOf(c) == <<c.state, c.district, c.market, c.commodity, c.arrival_date>>

\* _process_and_store_data on the one-record list [record], then the commit:
\* the row is inserted, or the row of its key gets the cleaned values.
\* nan_rejected: the database refuses NaN in the NOT NULL modal_price
\* column (SQLite binds NaN as NULL) and the commit fails
store_one(rows, record, nan_rejected) ==
    LET cleaned == clean_record_fields(record)
    IN  IF cleaned = None THEN rows
        ELSE IF cleaned[1].modal_price.nan /\ nan_rejected THEN rows
        ELSE MapSet(rows, KeyOf(cleaned[1]), cleaned[1])

\* one record goes through the store step
IngestRaw(record, nan_rejected) ==
    /\ price_rows' = store_one(price_rows, record, nan_rejected)
    /\ call' = [fn |-> "_clean_record",
                dropped |-> clean_record_fields(record) = None,
                changed |-> store_one(price_rows, record, nan_rejected)
                              # price_rows,
                bad |-> \/ parse_date(record.arrival_date) = None
                        \/ \E f \in {record.state, record.district,
                                     record.market, record.commodity} :
                              f = None \/ f[1] \in {"", "  "}
                        \/ record.modal_price \in {"", "NR", "nan", "-5", "0"}]
    /\ UNCHANGED <<environ, anVars, dbVars, syncVars, toolVars, wsVars, botVars>>

NextClean ==
    \E record \in RawRecords, nan_rejected \in BOOLEAN :
        /\ nan_rejected => record.modal_price = "nan"
        /\ IngestRaw(record, nan_rejected)

(***************************************************************************)
(* Analytics generation (services/mandi_db_generation.py)                  *)
(***************************************************************************)
MaxDays == 1            \* days the clock may advance
MaxPriceRecords == 7    \* market_prices rows in the table
WindowDays == 30        \* timedelta(days=30)
MinRecords == 5         \* len(commodity_data) < 5
FirstDay == WindowDays  \* the day the model starts on

\* the market_prices rows of the model: commodity, market, arrival day and
\* modal price; rows of one kind differ in fields analytics does not read
PriceKinds ==
    {[commodity |-> "Onion", market |-> "Lasalgaon", arrival_date |-> 0,
      modal_price |-> 100],
     [commodity |-> "Onion", market |-> "Lasalgaon", arrival_date |-> 1,
      modal_price |-> 100],
     [commodity |-> "Onion", market |-> "Pimpalgaon", arrival_date |-> 1,
      modal_price |-> 200],
     [commodity |-> "Wheat", market |-> "Indore", arrival_date |-> 0,
      modal_price |-> 100],
     [commodity |-> "Wheat", market |-> "Indore", arrival_date |-> 1,
      modal_price |-> 200]}
AnalyticsCommodities == <<"Onion", "Wheat">>

\* MarketPrice.arrival_date >= datetime.now() - timedelta(days): arrival
\* dates are midnights, so a row exactly `days` old qualifies only when
\* now is midnight itself
in_window(arrival_date, now_day, at_midnight, days) ==
    IF at_midnight THEN arrival_date >= now_day - days
    ELSE arrival_date > now_day - days

\* commodity_data: the kinds of row of the commodity inside the window
commodity_data(data, commodity, now_day, at_midnight) ==
    {k \in PriceKinds : /\ data[k] > 0
                        /\ k.commodity = commodity
                        /\ in_window(k.arrival_date, now_day, at_midnight,
                                     WindowDays)}

SetMax(S) == CHOOSE x \in S : \A y \in S : y <= x
SetMin(S) == CHOOSE x \in S : \A y \in S : x <= y

\* analytics_data, the fields computed without float arithmetic
analytics_data(commodity, kinds, analysis_date) ==
    [commodity |-> commodity,
     analysis_date |-> analysis_date,
     highest_price |-> SetMax({k.modal_price : k \in kinds}),
     lowest_price |-> SetMin({k.modal_price : k \in kinds}),
     total_markets |-> Cardinality({k.market : k \in kinds}),
     top_market_price |-> SetMax({k.modal_price : k \in kinds})]

\* the query for today's row of the commodity: its id, or None
existing_row_never_found(table, commodity, analysis_date) == None
existing_row(table, commodity, analysis_date) ==
    LET ids == {i \in DOMAIN table :
                    /\ table[i].commodity = commodity
                    /\ table[i].analysis_date = analysis_date}
    IN  IF ids = {} THEN None ELSE Some(SetMin(ids))

\* the loop over recent_commodities from position i on
RECURSIVE analytics_loop(_, _, _, _, _)
analytics_loop(table, data, i, now_day, at_midnight) ==
    IF i > Len(AnalyticsCommodities) THEN table
    ELSE LET commodity == AnalyticsCommodities[i]
             kinds == commodity_data(data, commodity, now_day, at_midnight)
             existing == existing_row(table, commodity, now_day)
             row == analytics_data(commodity, kinds, now_day)
         IN  IF kinds = {} \/ SumOver(data, kinds) < MinRecords
             THEN analytics_loop(table, data, i + 1, now_day, at_midnight)
             ELSE IF existing # None
             THEN analytics_loop([table EXCEPT ![existing[1]] = row], data,
                                 i + 1, now_day, at_midnight)
             ELSE analytics_loop(Append(table, row), data, i + 1, now_day,
                                 at_midnight)

\* _generate_market_analytics with its commit; a failed commit leaves the
\* table as it was
generate_market_analytics(table, data, now_day, at_midnight, commit_fails) ==
    IF commit_fails THEN table
    ELSE analytics_loop(table, data, 1, now_day, at_midnight)

RowCount(data, commodity, now_day, at_midnight) ==
    SumOver(data, commodity_data(data, commodity, now_day, at_midnight))

GenerateAnalytics(at_midnight, commit_fails) ==
    /\ market_analytics' = generate_market_analytics(market_analytics,
                               price_data, today, at_midnight, commit_fails)
    /\ call' = [fn |-> "_generate_market_analytics",
                before |-> market_analytics,
                analysis_date |-> today,
                counts |-> [c \in Range(AnalyticsCommodities) |->
                               RowCount(price_data, c, today, at_midnight)]]
    /\ UNCHANGED <<environ, price_data, today, price_rows, dbVars, syncVars, toolVars,
                   wsVars, botVars>>

\* the store step of a sync adds a market_prices row
AddPrice(k) ==
    /\ SumOver(price_data, PriceKinds) < MaxPriceRecords
    /\ price_data' = [price_data EXCEPT ![k] = @ + 1]
    /\ UNCHANGED <<environ, market_analytics, today, call, price_rows, dbVars,
                   syncVars, toolVars, wsVars, botVars>>

NextDay ==
    /\ today < FirstDay + MaxDays
    /\ today' = today + 1
    /\ UNCHANGED <<environ, market_analytics, price_data, call, price_rows, dbVars,
                   syncVars, toolVars, wsVars, botVars>>

NextAnalytics ==
    \/ \E at_midnight \in BOOLEAN, commit_fails \in BOOLEAN :
            GenerateAnalytics(at_midnight, commit_fails)
    \/ \E k \in PriceKinds : AddPrice(k)
    \/ NextDay

(***************************************************************************)
(* Trend calculation (services/mandi_db_generation.py)                     *)
(***************************************************************************)
MaxRows == 3            \* rows of one commodity in the 14-day window

\* modal prices in rupees: around 100 they give changes of exactly 2 and -2
\* per cent and changes just inside and outside them
TrendPrices == {97, 98, 100, 102, 103}
\* trend fields a row holds before the run: the column defaults, or what an
\* earlier run wrote.  percentage_change is in hundredths of a per cent
TrendFields ==
    {[trend |-> "stable", price_change |-> Some(0),
      percentage_change |-> Some(0)],
     [trend |-> "up", price_change |-> Some(5),
      percentage_change |-> Some(500)]}

\* round(n / d) for d > 0; no quotient of the model is halfway between two
\* integers
RoundDiv(n, d) == (2 * n + d) \div (2 * d)

\* the trend of percentage_change = (price_change / previous_price) * 100,
\* compared without division: the float quotient of a change of exactly
\* 2 per cent is 2.0
trend_of_inclusive(current_price, previous_price) ==
    LET price_change == current_price - previous_price
    IN  IF price_change * 100 >= 2 * previous_price THEN "up"
        ELSE IF price_change * 100 <= -2 * previous_price THEN "down"
        ELSE "stable"
trend_of(current_price, previous_price) ==
    LET price_change == current_price - previous_price
    IN  IF price_change * 100 > 2 * previous_price THEN "up"
        ELSE IF price_change * 100 < -2 * previous_price THEN "down"
        ELSE "stable"

\* _calculate_price_trends on one commodity.  commodity_prices: its rows of
\* the last 14 days, newest first; recent: it has a row in the last 7 days
calculate_price_trends(commodity_prices, recent) ==
    IF ~recent \/ Len(commodity_prices) < 2 THEN commodity_prices
    ELSE [i \in DOMAIN commodity_prices |->
            LET record == commodity_prices[i]
            IN  IF i < Len(commodity_prices)
                   /\ commodity_prices[i + 1].modal_price > 0
                THEN LET previous_price == commodity_prices[i + 1].modal_price
                         price_change == record.modal_price - previous_price
                     IN  [record EXCEPT
                            !.price_change = Some(price_change),
                            !.percentage_change =
                                Some(RoundDiv(price_change * 10000,
                                              previous_price)),
                            !.trend = trend_of(record.modal_price,
                                               previous_price)]
                ELSE record]

\* one run; a failing commit raises and leaves the rows as they were
CalculateTrends(commodity_prices, recent, commit_fails) ==
    /\ call' = [fn |-> "_calculate_price_trends",
                before |-> commodity_prices, recent |-> recent,
                raised |-> commit_fails,
                after |-> IF commit_fails THEN commodity_prices
                          ELSE calculate_price_trends(commodity_prices,
                                                      recent)]
    /\ UNCHANGED <<price_rows, environ, anVars, dbVars, syncVars, toolVars, wsVars,
                   botVars>>

NextTrends ==
    /\ call = NoCall
    /\ \E rows \in SeqsUpTo([modal_price : TrendPrices, trend : {"stable", "up"}],
                            MaxRows),
          recent \in BOOLEAN, commit_fails \in BOOLEAN :
           \* a row of the last 7 days is a row of the last 14 days
           /\ recent => rows # <<>>
           /\ CalculateTrends(
                 [i \in DOMAIN rows |->
                     [modal_price |-> rows[i].modal_price] @@
                     (CHOOSE f \in TrendFields : f.trend = rows[i].trend)],
                 recent, commit_fails)

(***************************************************************************)
(* Price prediction (services/mandi_db_generation.py)                      *)
(***************************************************************************)
MaxPoints == 4          \* rows handed to _predict_prices
RecentPoints == 7       \* sorted_data[-7:]

\* modal prices of the rows, in rupees
PointPrices == {1, 2, 10}

\* the largest r with r * r <= x, for lo * lo <= x < hi * hi
RECURSIVE ISqrt(_, _, _)
ISqrt(x, lo, hi) ==
    IF hi - lo <= 1 THEN lo
    ELSE LET mid == (lo + hi) \div 2
         IN  IF mid * mid <= x THEN ISqrt(x, mid, hi) ELSE ISqrt(x, lo, mid)

SeqSum(q) == SumOver(q, DOMAIN q)

\* max(40, min(85, confidence)), in tenths
clamp_confidence_none(confidence) == confidence
clamp_confidence(confidence) ==
    IF confidence > 850 THEN 850
    ELSE IF confidence < 400 THEN 400
    ELSE confidence

\* _predict_prices on the modal prices of data sorted by arrival date.
\* Prices are returned in hundredths of a rupee and the confidence in
\* tenths.  With n prices of sum S and sum of squares Q the volatility
\* sqrt(variance) / mean is sqrt(n * Q - S * S) / S, and round(x, 1) of
\* 80 - volatility * 100 is 80 less the rounded 1000 * volatility / 10
predict_prices(prices) ==
    IF prices = <<>> THEN [raised |-> TRUE]
    ELSE IF Len(prices) < 3
    THEN [raised |-> FALSE,
          predicted_7d |-> (100 * SeqSum(prices)) \div Len(prices),
          predicted_14d |-> (100 * SeqSum(prices)) \div Len(prices),
          confidence |-> 500]
    ELSE LET recent == IF Len(prices) >= RecentPoints
                       THEN SubSeq(prices, Len(prices) - RecentPoints + 1,
                                   Len(prices))
                       ELSE prices
             n == Len(recent)
             S == SeqSum(recent)
             Q == SeqSum([i \in DOMAIN recent |-> recent[i] * recent[i]])
             \* sum(daily_changes) is the last price less the first
             current_price == recent[n]
             change == recent[n] - recent[1]
             millis == (ISqrt(4000000 * (n * Q - S * S), 0, 46341) + S)
                          \div (2 * S)
         IN  [raised |-> FALSE,
              predicted_7d |-> RoundDiv(100 * (current_price * (n - 1)
                                               + 7 * change), n - 1),
              predicted_14d |-> RoundDiv(100 * (current_price * (n - 1)
                                                + 14 * change), n - 1),
              confidence |-> clamp_confidence(800 - millis)]

PredictPrices(prices) ==
    /\ call' = [fn |-> "_predict_prices", prices |-> prices,
                result |-> predict_prices(prices)]
    /\ UNCHANGED <<price_rows, environ, anVars, dbVars, syncVars, toolVars, wsVars,
                   botVars>>

NextPredict ==
    /\ call = NoCall
    /\ \E prices \in SeqsUpTo(PointPrices, MaxPoints) : PredictPrices(prices)

(***************************************************************************)
(* Market tools and what they return (tools/market_tools.py)               *)
(***************************************************************************)
MaxAdviceRows == 2      \* rows get_selling_advice finds
MinAnalysisRows == 5    \* len(historical_prices) < 5

\* get_market_prices: the result map, with the number of strings in its
\* "suggestions" list.  rows: the number of rows the query returns
get_market_prices(db, rows) ==
    IF db = "down"
    THEN Result("get_market_prices", "error", "hi", "exception")
            @@ [suggestions |-> 0]
    ELSE IF rows = 0
    THEN Result("get_market_prices", "no_data", "hi", "none")
            @@ [suggestions |-> 3]
    ELSE Result("get_market_prices", "success", "none", "none")
            @@ [suggestions |-> 0]

\* get_price_analysis: a stored analytics row of the last 3 days is used,
\* else generate_live_analysis, which wants 5 rows and otherwise returns
\* insufficient_data with a "suggestion" text
get_price_analysis(db, has_analytics, rows) ==
    IF db = "down"
    THEN Result("get_price_analysis", "error", "hi", "exception")
            @@ [suggestions |-> 0]
    ELSE IF ~has_analytics /\ rows < MinAnalysisRows
    THEN Result("get_price_analysis", "insufficient_data", "hi", "none")
            @@ [suggestions |-> 1]
    ELSE Result("get_price_analysis", "success", "none", "none")
            @@ [suggestions |-> 0]

\* quality_multiplier, in hundredths
quality_multiplier_flat(quality_grade) == 100
quality_multiplier(quality_grade) ==
    CASE quality_grade = "high" -> 115
      [] quality_grade = "medium" -> 100
      [] quality_grade = "low" -> 85

\* best_markets of get_selling_advice.  recent_prices: modal prices in
\* paise; quantity: None or Some(quintals).  adjusted_price and
\* potential_revenue are in paise; potential_revenue is computed from the
\* price before rounding and is None for a quantity that is None or 0
best_markets(recent_prices, quality_grade, quantity) ==
    [i \in DOMAIN recent_prices |->
        [original_price |-> recent_prices[i],
         adjusted_price |-> RoundDiv(recent_prices[i]
                                       * quality_multiplier(quality_grade),
                                     100),
         potential_revenue |->
            IF quantity # None /\ quantity[1] # 0
            THEN Some(RoundDiv(recent_prices[i]
                                 * quality_multiplier(quality_grade)
                                 * quantity[1], 100))
            ELSE None]]

MarketPrices(db, rows) ==
    /\ call' = [fn |-> "get_market_prices", rows |-> rows,
                result |-> get_market_prices(db, rows)]
    /\ UNCHANGED <<price_rows, environ, anVars, dbVars, syncVars, toolVars, wsVars,
                   botVars>>

PriceAnalysis(db, has_analytics, rows) ==
    /\ call' = [fn |-> "get_price_analysis", rows |-> rows,
                result |-> get_price_analysis(db, has_analytics, rows)]
    /\ UNCHANGED <<price_rows, environ, anVars, dbVars, syncVars, toolVars, wsVars,
                   botVars>>

SellingAdvice(db, recent_prices, quality_grade, quantity) ==
    /\ LET r == get_selling_advice(EmptyToolState, FALSE, "Onion",
                                   quality_grade,
                                   IF db = "down" THEN "down"
                                   ELSE IF recent_prices = <<>> THEN "empty"
                                   ELSE "rows").result
       IN  call' = [fn |-> "get_selling_advice",
                    rows |-> Len(recent_prices),
                    quality_grade |-> quality_grade, quantity |-> quantity,
                    result |-> r @@ [suggestions |-> 0],
                    best_markets |->
                        IF r.status = "success"
                        THEN best_markets(recent_prices, quality_grade,
                                          quantity)
                        ELSE <<>>]
    /\ UNCHANGED <<price_rows, environ, anVars, dbVars, syncVars, toolVars, wsVars,
                   botVars>>

\* get_market_prices with its session context: [result, state].  The
\* result map itself is stored as "prices"
get_market_prices_in_context(state, has_ctx, commodity, db, rows) ==
    LET r == get_market_prices(db, rows)
        st1 == [state EXCEPT !.last_commodity_search = Some(commodity),
                             !.last_search_result = Some(r.status)]
        st2 == IF r.status = "success"
               THEN [st1 EXCEPT !.last_price_data = Some("prices")]
               ELSE st1
    IN  [result |-> r, state |-> IF has_ctx THEN st2 ELSE state]

\* what get_price_analysis stores as last_analysis_result: the result map
\* (here its status) or, from the except branch, the string "error"
analysis_result_kept(state, r) == state
analysis_result_stored(state, r) ==
    [state EXCEPT !.last_analysis_result =
        Some(IF r.status = "error" THEN "error" ELSE <<r.status>>)]

\* get_price_analysis with its session context: [result, state]
get_price_analysis_in_context(state, has_ctx, commodity, db, has_analytics, rows) ==
    LET r == get_price_analysis(db, has_analytics, rows)
        st == analysis_result_stored(
                [state EXCEPT !.last_analysis_commodity = Some(commodity)],
                r)
    IN  [result |-> r, state |-> IF has_ctx THEN st ELSE state]

\* one call of a market tool by the agent, with or without a context
MarketToolReturns(tool, has_ctx, commodity, r) ==
    /\ tool_result' = [k \in DOMAIN NoResult |-> r.result[k]]
    /\ tool_state' = r.state
    /\ call' = [fn |-> tool, has_ctx |-> has_ctx, commodity |-> commodity]
    /\ UNCHANGED <<price_rows, environ, anVars, dbVars, syncVars, wsVars,
                   botVars>>

NextMarketContext ==
    \E has_ctx \in BOOLEAN, commodity \in Commodities, db \in {"up", "down"} :
        \/ \E rows \in {0, MaxAdviceRows} :
              MarketToolReturns("get_market_prices", has_ctx, commodity,
                  get_market_prices_in_context(tool_state, has_ctx,
                                               commodity, db, rows))
        \/ \E has_analytics \in BOOLEAN,
              rows \in {MinAnalysisRows - 1, MinAnalysisRows} :
              MarketToolReturns("get_price_analysis", has_ctx, commodity,
                  get_price_analysis_in_context(tool_state, has_ctx,
                                                commodity, db,
                                                has_analytics, rows))
        \/ \E quality_grade \in {"high", "premium"},
              rows \in {"rows", "empty"} :
              MarketToolReturns("get_selling_advice", has_ctx, commodity,
                  get_selling_advice(tool_state, has_ctx, commodity,
                                     quality_grade,
                                     IF db = "down" THEN "down" ELSE rows))

NextMarket ==
    /\ call = NoCall
    /\ \/ \E db \in {"up", "down"}, rows \in 0..MaxAdviceRows :
             MarketPrices(db, rows)
       \/ \E db \in {"up", "down"}, has_analytics \in BOOLEAN,
             rows \in {0, MinAnalysisRows - 1, MinAnalysisRows} :
             PriceAnalysis(db, has_analytics, rows)
       \/ \E db \in {"up", "down"},
             recent_prices \in SeqsUpTo({10000, 10001, 10040}, MaxAdviceRows),
             quality_grade \in QualityGrades,
             quantity \in {None, Some(0), Some(1), Some(100)} :
             SellingAdvice(db, recent_prices, quality_grade, quantity)

(***************************************************************************)
(* Speech text (services/elevenlabs_voice_service.py)                      *)
(***************************************************************************)
MaxTextRuns == 5        \* runs of one text
SpeechLimit == 1000     \* len(speech_text) > 1000
BreakLimit == 950       \* len(truncated + sentence) < 950

\* A text is a sequence of runs [ch, n]: n characters of one kind.  "a" is
\* ordinary text, "*" markdown that is removed, "Rs" the rupee sign, which
\* becomes the 6 characters of "rupaye " ("rupaye" runs), "|" the danda
\* that ends a sentence
TextRuns ==
    {[ch |-> "a", n |-> 300], [ch |-> "a", n |-> 499],
     [ch |-> "*", n |-> 600], [ch |-> "Rs", n |-> 100],
     [ch |-> "|", n |-> 1]}
\* " " and the continuation phrase, which ends in a danda
Space == [ch |-> " ", n |-> 1]
ContinuationPhrase == [ch |-> "MORE_ON_REQUEST|", n |-> 29]

TextLen(t) == SumOver([i \in DOMAIN t |-> t[i].n], DOMAIN t)

\* the replace() calls for a response_type without pauses: markdown goes,
\* symbols become words
replace_symbols(text) ==
    LET kept == SelectSeq(text, LAMBDA run : run.ch # "*")
    IN  [i \in DOMAIN kept |->
            IF kept[i].ch = "Rs"
            THEN [ch |-> "rupaye", n |-> 6 * kept[i].n]
            ELSE kept[i]]

\* speech_text.split(danda)
RECURSIVE split_sentences(_)
split_sentences(t) ==
    LET dandas == {i \in DOMAIN t : t[i].ch = "|"}
        first == CHOOSE i \in dandas : \A j \in dandas : i <= j
    IN  IF dandas = {} THEN <<t>>
        ELSE <<SubSeq(t, 1, first - 1)>>
                \o split_sentences(SubSeq(t, first + 1, Len(t)))

\* the loop that builds truncated, from sentence j on
RECURSIVE take_sentences(_, _, _)
take_sentences(sentences, j, truncated) ==
    IF j > Len(sentences) THEN truncated
    ELSE IF TextLen(truncated \o sentences[j]) < BreakLimit
    THEN take_sentences(sentences, j + 1,
                        truncated \o sentences[j] \o <<[ch |-> "|", n |-> 1]>>)
    ELSE truncated

\* the test that decides on truncation
limit_exceeded_never(speech_text) == FALSE
limit_exceeded(speech_text) == TextLen(speech_text) > SpeechLimit

\* _optimize_text_for_speech; strip() takes the space off a result that
\* starts with it
optimize_text_for_speech(text) ==
    LET speech_text == replace_symbols(text)
        truncated == take_sentences(split_sentences(speech_text), 1, <<>>)
    IN  IF limit_exceeded(speech_text)
        THEN (IF truncated = <<>> THEN <<>> ELSE truncated \o <<Space>>)
                \o <<ContinuationPhrase>>
        ELSE speech_text

OptimizeText(text) ==
    /\ call' = [fn |-> "_optimize_text_for_speech", text |-> text,
                result |-> optimize_text_for_speech(text)]
    /\ UNCHANGED <<price_rows, environ, anVars, dbVars, syncVars, toolVars, wsVars,
                   botVars>>

NextVoice ==
    /\ call = NoCall
    /\ \E text \in SeqsUpTo(TextRuns, MaxTextRuns) : OptimizeText(text)

(***************************************************************************)
(* The fetch step (mandi_db_generation.py)                                 *)
(***************************************************************************)
max_retries == 3        \* self.max_retries
retry_delay == 2        \* self.retry_delay
PageLimit == 1000       \* limit

\* the records the API holds for one date
RemoteSizes == {0, 500, 1500, 2000}

\* the sleep of the except clause after a failed attempt
backoff_constant(attempt) == retry_delay
backoff(attempt) == retry_delay * (attempt + 1)

\* the failed attempt was the last one
attempts_exhausted(attempt) == attempt = max_retries - 1

\* the records of the page at offset, out of size records
batch_records(size, offset) ==
    IF size - offset >= PageLimit THEN PageLimit
    ELSE IF size > offset THEN size - offset
    ELSE 0

\* the page ends the date: it is empty or shorter than the limit
page_is_last_when_empty(batch) == batch = 0
page_is_last(batch) == batch < PageLimit

\* a failed date: what _fetch_market_data does with the pages the date had
\* retrieved
failed_date_dropped(records) == <<>>
failed_date_records(records) == records

\* _fetch_market_data(days_back) starts: the range is computed
FetchMarketData(days_back, remote) ==
    /\ call = NoCall
    /\ call' = [fn |-> "_fetch_market_data", pc |-> "date_loop",
                days_back |-> days_back, remote |-> remote,
                current_date |-> today - days_back, end_date |-> today,
                visited |-> <<>>, all_records |-> <<>>,
                offset |-> 0, attempt |-> 0, records |-> <<>>,
                trace |-> <<>>, outcome |-> "none"]
    /\ UNCHANGED <<price_rows, environ, anVars, dbVars, syncVars, toolVars,
                   wsVars, botVars>>

\* the head of the date loop: the next date is entered or all_records is
\* returned
FetchDate ==
    /\ call.fn = "_fetch_market_data" /\ call.pc = "date_loop"
    /\ call' = IF call.current_date <= call.end_date
               THEN [call EXCEPT !.pc = "request",
                                 !.visited = Append(@, call.current_date),
                                 !.offset = 0, !.attempt = 0,
                                 !.records = <<>>, !.trace = <<>>,
                                 !.outcome = "none"]
               ELSE [call EXCEPT !.pc = "done"]
    /\ UNCHANGED <<price_rows, environ, anVars, dbVars, syncVars, toolVars,
                   wsVars, botVars>>

\* _fetch_api_data_for_date returns records to the date loop, which
\* extends all_records and moves to the next date
date_returns(c, records, outcome) ==
    [c EXCEPT !.pc = "date_loop", !.records = records,
              !.outcome = outcome,
              !.all_records = @ \o (IF outcome = "failed"
                                    THEN failed_date_records(records)
                                    ELSE records),
              !.current_date = @ + 1]

\* one attempt of a page request: the request and what follows it up to
\* the next request
PageRequest(ok) ==
    /\ call.fn = "_fetch_market_data" /\ call.pc = "request"
    /\ LET date == call.current_date
           batch == batch_records(call.remote[date], call.offset)
           page == [date |-> date, offset |-> call.offset, n |-> batch]
           requested == [call EXCEPT
                            !.trace = Append(@, [ev |-> "request",
                                                 v |-> call.offset])]
       IN  call' =
             IF ok
             THEN IF batch = 0
                  THEN date_returns(requested, call.records, "end")
                  ELSE IF page_is_last(batch)
                  THEN date_returns(requested, Append(call.records, page),
                                    "end")
                  ELSE [requested EXCEPT
                            !.records = Append(@, page),
                            !.offset = @ + PageLimit,
                            !.attempt = 0, !.trace = <<>>]
             ELSE IF attempts_exhausted(call.attempt)
                  THEN date_returns(requested, call.records, "failed")
                  ELSE [requested EXCEPT
                            !.trace = Append(@, [ev |-> "sleep",
                                                 v |-> backoff(call.attempt)]),
                            !.attempt = @ + 1]
    /\ UNCHANGED <<price_rows, environ, anVars, dbVars, syncVars, toolVars,
                   wsVars, botVars>>

NextFetch ==
    \/ \E days_back \in 0..MaxDaysBack :
          \E remote \in [(today - days_back)..today -> RemoteSizes] :
             FetchMarketData(days_back, remote)
    \/ FetchDate
    \/ \E ok \in BOOLEAN : PageRequest(ok)

(***************************************************************************)
(* Service status (main.py)                                                *)
(***************************************************************************)
\* truth of os.getenv(k): a variable that is not there gives None, and None
\* and the empty string are false
getenv_truthy_when_set(env, k) == env[k] # "unset"
getenv_truthy(env, k) == env[k] \notin {"unset", ""}

\* get_service_status: the "ai_models" part of the reply
ai_models(env) ==
    LET entry(k) == IF getenv_truthy(env, k) THEN "available"
                    ELSE "not_configured"
    IN  [gemini_vision |-> entry("GOOGLE_API_KEY"),
         weather_api |-> entry("WEATHER_API_KEY"),
         elevenlabs_voice |-> entry("ELEVENLABS_API_KEY")]

\* GET /api/service-status
ServiceStatus ==
    /\ call' = [fn |-> "get_service_status", started |-> started,
                environ |-> environ,
                result |-> [status |-> "operational",
                            ai_models |-> ai_models(environ)]]
    /\ UNCHANGED <<price_rows, environ, anVars, dbVars, syncVars, toolVars,
                   wsVars, botVars>>

NextStatus ==
    \/ \E fail_at \in InitSteps : Startup(fail_at)
    \/ ServiceStatus

(***************************************************************************)
(* Initial states and specifications                                       *)
(***************************************************************************)
InitData ==
    /\ market_prices = ZeroRows
    /\ pending = ZeroRows
    /\ store_call = [given |-> 0, dirty |-> 0, ret |-> "none"]
    /\ stats = ZeroStats
    /\ storing = FALSE
    /\ ingested = 0
    /\ sync_log = <<>>
    /\ sync_ret = [status |-> "none", determined |-> FALSE, force |-> FALSE,
                   log_write_failed |-> FALSE]
    /\ runs = 0
    /\ tool_result = NoResult
    /\ tool_state = EmptyToolState

InitFn ==
    /\ call = NoCall
    /\ price_rows = <<>>
    /\ market_analytics = <<>>
    /\ price_data = [k \in PriceKinds |-> 0]
    /\ today = FirstDay

InitAll ==
    /\ InitWS /\ InitBot /\ InitData /\ InitFn
    /\ environ = [k \in EnvKeys |-> "unset"]

\* the process starts in any environment
InitStatus ==
    /\ InitWS /\ InitBot /\ InitData /\ InitFn
    /\ environ \in [EnvKeys -> EnvValues]

SpecWS == InitAll /\ [][NextWS]_vars
SpecBot == InitAll /\ [][NextBot]_vars
SpecStore == InitAll /\ [][NextStore]_vars
SpecSync == InitAll /\ [][NextSync]_vars
SpecSyncType == InitAll /\ [][NextSyncType]_vars
SpecTools == InitAll /\ [][NextTools]_vars
SpecClean == InitAll /\ [][NextClean]_vars
SpecAnalytics == InitAll /\ [][NextAnalytics]_vars
SpecStream == InitAll /\ [][NextStream]_vars
SpecTrends == InitAll /\ [][NextTrends]_vars
SpecPredict == InitAll /\ [][NextPredict]_vars
SpecMarket == InitAll /\ [][NextMarket]_vars
SpecVoice == InitAll /\ [][NextVoice]_vars
SpecStatus == InitStatus /\ [][NextStatus]_vars
\* a request returns or times out and a sleep ends: the fetch step goes on
SpecFetch == InitAll /\ [][NextFetch]_vars /\ WF_vars(NextFetch)
SpecMarketContext == InitAll /\ [][NextMarketContext]_vars

(***************************************************************************)
(* Properties of the gateway and the connection manager                    *)
(***************************************************************************)
Serving(c) == pc[c] \notin {"new", "closed"}
FramesOf(c, k, t) ==
    {i \in DOMAIN emitted[c] : emitted[c][i].msg = k /\ emitted[c][i].type = t}
\* a step of connection d's task or of its client
StepOf(d) == pc'[d] # pc[d] \/ open'[d] # open[d]
\* what the registry holds for connection c
RegEntry(c) ==
    IF sid[c] \in DOMAIN active_connections /\ sid[c] \in DOMAIN user_sessions
    THEN <<active_connections[sid[c]],
           user_sessions[sid[c]].interaction_count>>
    ELSE <<>>
DeliveredTo(c) ==
    {<<x, i>> \in Conns \X (1..(2 * MaxMsgs)) :
        i \in DOMAIN emitted[x] /\ emitted[x][i].to = c}

\* C3 (as claimed): every text frame read on a connection whose client is
\* still there is answered by exactly one "response" frame, after a
\* "thinking" frame, and by no "error" frame.
C3_TextAnsweredByOneResponse ==
    \A c \in Conns :
        (open[c] /\ pc[c] \in {"recv", "closed"} /\ cur[c].k > 0
            /\ cur[c].type = "text")
        => /\ Cardinality(FramesOf(c, cur[c].k, "response")) = 1
           /\ FramesOf(c, cur[c].k, "error") = {}
           /\ \A i \in FramesOf(c, cur[c].k, "response") :
                 /\ \E j \in FramesOf(c, cur[c].k, "thinking") : j < i
                 /\ {"content", "agent_used", "tools_called", "response_type",
                      "session_id", "timestamp"}
                        \subseteq FrameFields(emitted[c][i].type)

\* C4 (as claimed): the connect, disconnect or failure of one connection
\* leaves the registry entry, the interaction counter and the delivered
\* frames of every other open connection unchanged, and that connection
\* goes on being served.
C4_OtherConnectionsUnaffected ==
    [][\A c, d \in Conns :
          (c # d /\ Serving(c) /\ StepOf(d)
              /\ (pc[d] = "new" \/ pc'[d] = "closed"))
          => /\ RegEntry(c)' = RegEntry(c)
             /\ RegEntry(c) # <<>>
             /\ DeliveredTo(c)' = DeliveredTo(c)
             /\ Serving(c)']_vars

\* C5 (as claimed): a frame produced for a message of connection c goes to
\* c's own socket, and the location and preferences stored for c are those
\* sent on c.
C5_FramesAndContextStayOnOwnConnection ==
    \A c \in Conns :
        /\ \A i \in DOMAIN emitted[c] : emitted[c][i].to = c
        /\ (Serving(c) /\ sid[c] \in DOMAIN user_sessions)
           => /\ user_sessions[sid[c]].user_location \in {0, c}
              /\ user_sessions[sid[c]].user_preferences \in {0, c}

\* C6: within one connection at most one message is being handled, the next
\* frame is read only after the handler of the previous one returned, and
\* the frames a task emits are in message order, none for a later message
\* before the earlier message's handler returned.
C6_OneMessageAtATime ==
    \A c \in Conns :
        /\ handled[c] <= cur[c].k
        /\ cur[c].k <= handled[c] + 1
        /\ pc[c] = "recv" => cur[c].k = handled[c]
        /\ \A i \in DOMAIN emitted[c] :
              /\ emitted[c][i].msg >= 1
              /\ emitted[c][i].msg <= handled[c] + 1
              /\ \A j \in DOMAIN emitted[c] :
                    i < j => emitted[c][i].msg <= emitted[c][j].msg

\* two messages of one connection were handled, each with frames
C6_Witness ==
    \E c \in Conns :
        /\ handled[c] = 2
        /\ \E i, j \in DOMAIN emitted[c] :
              emitted[c][i].msg = 1 /\ emitted[c][j].msg = 2

\* C7: the connection map and the metadata map hold the same session ids;
\* disconnect removes an id from both and touches no other entry, and on an
\* absent id it changes nothing.
C7_MapsHoldSameIds ==
    /\ DOMAIN active_connections = DOMAIN user_sessions
    /\ \A s \in SessionIds :
          LET r == disconnect(Registry, s)
          IN  /\ DOMAIN r.ac = DOMAIN active_connections \ {s}
              /\ DOMAIN r.us = DOMAIN user_sessions \ {s}
              /\ \A x \in DOMAIN r.ac : r.ac[x] = active_connections[x]
              /\ \A x \in DOMAIN r.us : r.us[x] = user_sessions[x]
              /\ s \notin DOMAIN active_connections => r = Registry

\* both connections shared an id and both tasks ended: the second
\* disconnect found the id absent
C7_Witness ==
    /\ pc[1] = "closed" /\ pc[2] = "closed"
    /\ sid[1] = sid[2]
    /\ cur[1].k > 0 /\ cur[2].k > 0
    /\ active_connections = <<>>

NormalNext(p) ==
    IF FrameType(p) = "thinking" THEN "process" ELSE "recv"

\* C8: send_message never raises (control goes on where the call returns);
\* for an unregistered id it sends nothing and changes no state; after a
\* failed send last_activity is not updated; last_activity is set by
\* send_message only after a send that succeeded.
C8_SendMessageNeverRaises ==
    [][\A c \in Conns :
          /\ (pc[c] \in SendPcs /\ pc'[c] # pc[c])
             => /\ pc'[c] \in {SentOf(pc[c]), NormalNext(pc[c])}
                /\ sid[c] \notin DOMAIN active_connections
                   => UNCHANGED <<emitted, active_connections, user_sessions>>
                /\ (sid[c] \in DOMAIN active_connections
                       /\ ~open[active_connections[sid[c]]])
                   => /\ emitted' = emitted
                      /\ user_sessions'[sid[c]].last_activity
                            = user_sessions[sid[c]].last_activity
                /\ pc'[c] = SentOf(pc[c])
                   => /\ Len(emitted'[c]) = Len(emitted[c]) + 1
                      /\ user_sessions' = user_sessions
          /\ (pc[c] \in SentPcs /\ pc'[c] # pc[c])
             => pc'[c] = NormalNext(pc[c])
          /\ (sid[c] \in DOMAIN user_sessions /\ sid[c] \in DOMAIN user_sessions'
                /\ user_sessions'[sid[c]].last_activity = "send"
                /\ user_sessions[sid[c]].last_activity # "send")
             => \E d \in Conns : pc[d] \in SentPcs /\ pc'[d] # pc[d]
                                   /\ sid[d] = sid[c]]_vars

\* a "thinking" send failed (the client had gone) or found the id
\* unregistered, and the handler went on to the orchestration call
C8_Witness ==
    \E c \in Conns :
        /\ pc[c] = "process"
        /\ cur[c].type = "text"
        /\ FramesOf(c, cur[c].k, "thinking") = {}
        /\ ~open[c]

(***************************************************************************)
(* Properties of the orchestration service                                 *)
(***************************************************************************)
\* C2 (as claimed): process_message never raises to its caller, in every
\* service state, and returns a response for the given session id.
C2_ProcessMessageNeverRaises ==
    pm.called => (~pm.raised /\ pm.response.session_id = pm.s)

\* C2 (amended): process_message raises exactly when the service is not
\* initialized.  On an initialized service it never raises and returns a
\* response for the given session id with a text; when session handling,
\* the event stream or the construction of the response failed, the
\* response is the fixed apology without agent and tools, and otherwise it
\* is not.
C2_NeverRaisesOnceInitialized ==
    pm.called =>
        /\ pm.raised = ~pm.init
        /\ pm.init =>
             /\ pm.response.session_id = pm.s
             /\ pm.response.response
                  \in {"reply", DefaultApology, EscalationApology, ErrorApology}
             /\ pm.failed => pm.response = ErrorResponse(pm.s)
             /\ ~pm.failed => /\ pm.response.response # ErrorApology
                              /\ pm.response.tools_called # None

\* an initialized service whose call failed inside and returned the apology
C2_Witness ==
    /\ pm.called /\ pm.init /\ pm.failed /\ ~pm.raised
    /\ pm.response.response = ErrorApology
    /\ pm.s \in DOMAIN sessions

(***************************************************************************)
(* Properties of the sync engine                                           *)
(***************************************************************************)
\* C1 (as claimed): after any sequence of store steps there is at most one
\* market_prices row per natural key, and a key is counted as inserted at
\* most once.
C1_OneRowPerKey ==
    ~storing =>
        /\ \A k \in Keys : market_prices[k] <= 1
        /\ stats.inserted <= Cardinality({k \in Keys : market_prices[k] > 0})

\* C9 (as claimed): every sync_market_data run appends exactly one
\* DataSyncLog entry, "success" when the call returned and "failed" when it
\* raised.
C9_ExactlyOneEntryPerRun ==
    /\ Len(sync_log) = runs
    /\ runs > 0 => (sync_ret.status = "success"
                      <=> sync_log[Len(sync_log)].status = "success")

\* C9 (amended): a sync_market_data run never touches the entries of
\* earlier runs and appends at most one entry: a "success" entry when the
\* call returns; when a step raised, a "failed" entry with the sync type as
\* determined (else "unknown"), unless the write of that entry fails too,
\* and then no entry at all.  In both failure cases the call raises.
C9_AtMostOneEntryPerRun ==
    [][runs' = runs + 1 =>
         LET n == Len(sync_log)
             typ == IF sync_ret'.determined
                    THEN sync_type_of(sync_log, sync_ret'.force)
                    ELSE "unknown"
         IN  /\ Len(sync_log') \in {n, n + 1}
             /\ SubSeq(sync_log', 1, n) = sync_log
             /\ sync_ret'.status \in {"success", "raised"}
             /\ sync_ret'.status = "success"
                => /\ Len(sync_log') = n + 1
                   /\ sync_log'[n + 1].status = "success"
                   /\ sync_log'[n + 1].sync_type = typ
             /\ (sync_ret'.status = "raised" /\ ~sync_ret'.log_write_failed)
                => /\ Len(sync_log') = n + 1
                   /\ sync_log'[n + 1].status = "failed"
                   /\ sync_log'[n + 1].sync_type = typ
             /\ (sync_ret'.status = "raised" /\ sync_ret'.log_write_failed)
                => sync_log' = sync_log]_vars

\* a successful run, then a run that failed and could not write its entry
C9_Witness ==
    /\ runs = 2
    /\ Len(sync_log) = 1
    /\ sync_log[1].status = "success"
    /\ sync_ret.status = "raised"
    /\ sync_ret.log_write_failed

(***************************************************************************)
(* Properties of the tool adapters                                         *)
(***************************************************************************)
\* C10 (as claimed): every adapter call returns a result map with a status
\* and raises nothing; a result that comes from an exception inside has
\* status "error" and a Hindi-prefixed message.
C10_ToolsReturnStatusAndHindiErrors ==
    tool_result.called =>
        /\ ~tool_result.raised
        /\ tool_result.status \in {"success", "error", "no_data"}
        /\ tool_result.cause = "exception"
           => (tool_result.status = "error" /\ tool_result.lang = "hi")

\* C30 (as claimed): a call of a weather, crop-health or government-scheme
\* tool whose result is not a success (the service returned an error or
\* the input was rejected) leaves the session context as it was.
C30_ContextWrittenOnlyOnSuccess ==
    [][(tool_result'.called
        /\ tool_result'.tool \in {"get_weather_forecast",
                                  "get_current_weather",
                                  "analyze_crop_image", "check_eligibility"}
        /\ tool_result'.status # "success")
       => tool_state' = tool_state]_vars

(***************************************************************************)
(* Properties of record cleaning                                           *)
(***************************************************************************)
RowValid(r) ==
    /\ r.state # "" /\ r.district # "" /\ r.market # "" /\ r.commodity # ""
    /\ FGt(r.modal_price, Num(0))
    /\ FLe(r.min_price, r.modal_price)
    /\ FLe(r.modal_price, r.max_price)

\* C11 (as claimed): every stored market_prices row has non-blank state,
\* district, market and commodity, a strictly positive modal price and
\* min_price <= modal_price <= max_price; a record with an unparseable
\* date, a missing or blank required field or a modal price that is zero,
\* negative, blank or not a number stores nothing and changes no row.
C11_StoredRowsAreValid ==
    /\ \A k \in DOMAIN price_rows : RowValid(price_rows[k])
    /\ (call.fn = "_clean_record" /\ call.bad)
       => (call.dropped /\ ~call.changed)

RowsOf(table, commodity) ==
    SelectSeq(table, LAMBDA row : row.commodity = commodity)

\* C12: whatever analytics generations have run, the market_analytics table
\* holds at most one row per (commodity, analysis date), and a generation
\* leaves the rows of every commodity with fewer than 5 price records in
\* the trailing 30 days exactly as they were.
C12_OneAnalyticsRowPerCommodityAndDay ==
    /\ \A i, j \in DOMAIN market_analytics :
          (/\ market_analytics[i].commodity = market_analytics[j].commodity
           /\ market_analytics[i].analysis_date
                 = market_analytics[j].analysis_date) => i = j
    /\ call.fn = "_generate_market_analytics" =>
          \A c \in Range(AnalyticsCommodities) :
              call.counts[c] < MinRecords =>
                  RowsOf(market_analytics, c) = RowsOf(call.before, c)

\* a same-day re-run has overwritten a row while another commodity, which
\* has recent records but fewer than 5, was passed over
C12_Witness ==
    /\ call.fn = "_generate_market_analytics"
    /\ \E i \in DOMAIN call.before :
          /\ market_analytics[i] # call.before[i]
          /\ call.before[i].analysis_date = call.analysis_date
    /\ \E c \in Range(AnalyticsCommodities) :
          call.counts[c] > 0 /\ call.counts[c] < MinRecords

\* C13 (as claimed): when the runner yields a finite event stream,
\* process_message uses the events up to and including the first final one:
\* agent_used is the last non-empty author among them, tools_called the set
\* of their tool-call names, and the text is the final event's text when it
\* carries content, the escalation apology when it signals escalation
\* instead, and the default apology when no event is final.
C13_StopsAtFirstFinalEvent ==
    call.fn = "process_message" =>
        LET finals == {i \in DOMAIN call.events : call.events[i].final}
            last == IF finals = {} THEN Len(call.events) ELSE SetMin(finals)
            authors == {i \in 1..last : call.events[i].author # ""}
            final == call.events[last]
        IN  /\ call.response.agent_used
                 = IF authors = {} THEN "None"
                   ELSE call.events[SetMax(authors)].author
            /\ call.response.tools_called
                 = Some(UNION {Range(call.events[i].tool_calls) : i \in 1..last})
            /\ finals = {} => call.response.response = DefaultApology
            /\ (finals # {} /\ final.content # "none")
                  => call.response.response = "reply"
            /\ (finals # {} /\ final.content = "none" /\ final.escalate)
                  => call.response.response = EscalationApology

\* (pm'.called: the step is one of process_message)
\* C14 (as claimed): the first process_message for a session id creates the
\* session with the call's user context, message count 0, the capability
\* flags and an empty history, and a later call leaves the stored state as
\* it is.
C14_FirstCallCreatesSession ==
    [][pm'.called =>
          /\ pm'.s \in DOMAIN sessions'
          /\ sessions'[pm'.s] = IF pm'.s \in DOMAIN sessions
                                THEN sessions[pm'.s]
                                ELSE InitialState(pm'.user_context)]_vars

\* C14 (amended): process_message never changes or removes a session the
\* store holds, and adds at most the session of its own id, with the call's
\* user context, message count 0, the capability flags and an empty
\* history; it adds it when the service is initialized, the id has no
\* session and the session service raises neither in the lookup nor in the
\* creation, and does not add it on a service that is not initialized.
C14_SessionCreatedAtMostOnce ==
    [][pm'.called =>
          /\ \A s \in DOMAIN sessions :
                s \in DOMAIN sessions' /\ sessions'[s] = sessions[s]
          /\ \A s \in DOMAIN sessions' \ DOMAIN sessions :
                /\ s = pm'.s /\ pm'.init
                /\ sessions'[s] = InitialState(pm'.user_context)
          /\ (pm'.init /\ ~pm'.session_error /\ pm'.s \notin DOMAIN sessions)
                => pm'.s \in DOMAIN sessions'
          /\ ~pm'.init => sessions' = sessions]_vars

\* a later call with another user context found the session and left it
C14_Witness ==
    /\ pm.called /\ pm.init
    /\ pm.s \in DOMAIN sessions
    /\ sessions[pm.s].user_context # pm.user_context
    /\ sessions[pm.s].message_count = 0

\* C15 (as claimed): an initialize() call that fails leaves is_initialized
\* false, and is_initialized is true only when session service, agent and
\* runner are all set and were set by the same initialize() call.
C15_ReadyOnlyWhenFullyConstructed ==
    /\ service.raised => ~is_initialized
    /\ is_initialized =>
          /\ service.session_service # 0
          /\ service.main_agent = service.session_service
          /\ service.runner = service.session_service

\* C16: a trend run over a commodity's rows, newest first, gives every row
\* but the oldest the trend of its percentage change against the next-older
\* row: up exactly when the change is above 2 per cent, down exactly when
\* it is below -2 per cent, stable otherwise, so that changes of exactly 2
\* and -2 per cent are stable; the oldest row keeps its trend fields.
C16_TrendThresholdsAreStrict ==
    (call.fn = "_calculate_price_trends" /\ call.recent /\ ~call.raised) =>
        \A i \in DOMAIN call.before :
            IF i < Len(call.before)
            THEN LET previous == call.before[i + 1].modal_price
                     change == call.before[i].modal_price - previous
                 IN  /\ call.after[i].trend = "up"
                            <=> change * 100 > 2 * previous
                     /\ call.after[i].trend = "down"
                            <=> change * 100 < -2 * previous
                     /\ call.after[i].trend \in {"up", "down", "stable"}
                     /\ call.after[i].price_change = Some(change)
            ELSE call.after[i] = call.before[i]

\* a row that rose by exactly 2 per cent became stable and a newer one
\* that fell by more became down, above an oldest row that kept what an
\* earlier run wrote
C16_Witness ==
    /\ call.fn = "_calculate_price_trends" /\ call.recent /\ ~call.raised
    /\ Len(call.before) = 3
    /\ call.before[1].modal_price = 98 /\ call.before[2].modal_price = 102
    /\ call.before[3].modal_price = 100
    /\ call.before[1].trend = "up" /\ call.after[1].trend = "down"
    /\ call.before[2].trend = "up" /\ call.after[2].trend = "stable"
    /\ call.after[3].trend = "up" /\ call.after[3].price_change = Some(5)

C18_NoDataComesWithSuggestions ==
    call.fn \in {"get_market_prices", "get_price_analysis",
                 "get_selling_advice"} =>
        /\ call.result.status \in {"no_data", "insufficient_data"}
              => call.result.suggestions > 0
        /\ (call.fn = "get_market_prices" /\ call.rows = 0
            /\ call.result.status # "error")
              => (call.result.status = "no_data"
                  /\ call.result.suggestions > 0)

\* C19 (as claimed): in a successful get_selling_advice result every row
\* has adjusted_price = modal price times 1.15, 1.0 or 0.85 by grade,
\* rounded to 2 decimals, and with a quantity given potential_revenue =
\* adjusted_price times quantity.
C19_RevenueIsAdjustedPriceTimesQuantity ==
    (call.fn = "get_selling_advice" /\ call.result.status = "success") =>
        \A i \in DOMAIN call.best_markets :
            LET row == call.best_markets[i]
                hundredths == CASE call.quality_grade = "high" -> 115
                                [] call.quality_grade = "medium" -> 100
                                [] call.quality_grade = "low" -> 85
            IN  /\ row.adjusted_price
                     = RoundDiv(row.original_price * hundredths, 100)
                /\ call.quantity # None =>
                     row.potential_revenue
                        = Some(row.adjusted_price * call.quantity[1])

\* C19 (amended): adjusted_price is as claimed; potential_revenue is the
\* modal price times the multiplier times the quantity, rounded to 2
\* decimals, that is, computed from the price before its rounding, and it
\* is None when the quantity is None or 0.
C19_RevenueFromUnroundedPrice ==
    (call.fn = "get_selling_advice" /\ call.result.status = "success") =>
        \A i \in DOMAIN call.best_markets :
            LET row == call.best_markets[i]
                hundredths == CASE call.quality_grade = "high" -> 115
                                [] call.quality_grade = "medium" -> 100
                                [] call.quality_grade = "low" -> 85
            IN  /\ row.adjusted_price
                     = RoundDiv(row.original_price * hundredths, 100)
                /\ row.potential_revenue
                     = IF call.quantity = None \/ call.quantity = Some(0)
                       THEN None
                       ELSE Some(RoundDiv(row.original_price * hundredths
                                            * call.quantity[1], 100))

\* 100 quintals of high grade at 100.01: the revenue is 11501.15 while the
\* returned adjusted price of 115.01 times 100 is 11501.00
C19_Witness ==
    /\ call.fn = "get_selling_advice" /\ call.result.status = "success"
    /\ call.quality_grade = "high" /\ call.quantity = Some(100)
    /\ call.rows > 0
    /\ call.best_markets[1].original_price = 10001
    /\ call.best_markets[1].adjusted_price = 11501
    /\ call.best_markets[1].potential_revenue = Some(1150115)

\* the result ends in the continuation phrase, and what comes before it is
\* a start of the optimized text made of whole sentences
EndsInPhraseAfterWholeSentences(result, speech_text) ==
    /\ result # <<>> /\ result[Len(result)] = ContinuationPhrase
    /\ \/ Len(result) = 1
       \/ /\ Len(result) >= 3
          /\ result[Len(result) - 1] = Space
          /\ result[Len(result) - 2].ch = "|"
          /\ Len(result) - 2 <= Len(speech_text)
          /\ SubSeq(result, 1, Len(result) - 2)
                = SubSeq(speech_text, 1, Len(result) - 2)

\* C20 (as claimed): for every input of more than 1,000 characters the
\* result ends in the continuation phrase, after whole sentences of the
\* optimized text taken in order from its start.
C20_LongInputEndsInPhrase ==
    (call.fn = "_optimize_text_for_speech"
     /\ TextLen(call.text) > SpeechLimit) =>
        EndsInPhraseAfterWholeSentences(call.result,
                                        replace_symbols(call.text))

\* C20 (amended): the result ends in the continuation phrase, after whole
\* sentences of the optimized text taken in order from its start and
\* shorter than 950 characters together, exactly when the optimized text,
\* not the input, has more than 1,000 characters; otherwise the result is
\* the optimized text.
C20_LongSpeechTextEndsInPhrase ==
    call.fn = "_optimize_text_for_speech" =>
        LET speech_text == replace_symbols(call.text)
        IN  IF TextLen(speech_text) > SpeechLimit
            THEN /\ EndsInPhraseAfterWholeSentences(call.result, speech_text)
                 /\ TextLen(call.result) - TextLen(<<ContinuationPhrase>>)
                       <= BreakLimit + 1
            ELSE call.result = speech_text

\* an input of 1,099 characters whose optimized text has 1,100 kept its
\* first sentence and got the phrase
C20_Witness ==
    /\ call.fn = "_optimize_text_for_speech"
    /\ call.text = <<[ch |-> "a", n |-> 499], [ch |-> "|", n |-> 1],
                     [ch |-> "a", n |-> 300], [ch |-> "a", n |-> 300]>>
    /\ call.result = <<[ch |-> "a", n |-> 499], [ch |-> "|", n |-> 1],
                       Space, ContinuationPhrase>>

\* the variable an "ai_models" entry is computed from
ModelKey ==
    [gemini_vision |-> "GOOGLE_API_KEY", weather_api |-> "WEATHER_API_KEY",
     elevenlabs_voice |-> "ELEVENLABS_API_KEY"]

\* C21 (as claimed): each "ai_models" entry of a service-status reply is
\* "available" if and only if its environment variable is set when the call
\* is made, and "not_configured" otherwise, whatever was called before.
C21_AvailableIffVariableSet ==
    call.fn = "get_service_status" =>
        \A m \in DOMAIN ModelKey :
            call.result.ai_models[m]
                = IF call.environ[ModelKey[m]] # "unset" THEN "available"
                  ELSE "not_configured"

\* C21 (amended): each "ai_models" entry of a service-status reply is
\* "available" if and only if its environment variable holds a non-empty
\* value when the call is made, and "not_configured" otherwise (also for a
\* variable set to the empty string), whatever was called before.
C21_AvailableIffVariableNonEmpty ==
    call.fn = "get_service_status" =>
        \A m \in DOMAIN ModelKey :
            call.result.ai_models[m]
                = IF call.environ[ModelKey[m]] \notin {"unset", ""}
                  THEN "available" ELSE "not_configured"

\* a reply given before startup in an environment that holds one key, one
\* empty variable and lacks one
C21_Witness ==
    /\ call.fn = "get_service_status" /\ ~call.started
    /\ call.environ["GOOGLE_API_KEY"] = "PASTE-YOUR-API-KEY-HERE"
    /\ call.environ["WEATHER_API_KEY"] = ""
    /\ call.environ["ELEVENLABS_API_KEY"] = "unset"
    /\ call.result.ai_models
          = [gemini_vision |-> "available", weather_api |-> "not_configured",
             elevenlabs_voice |-> "not_configured"]

\* the keys a market tool writes: its last-commodity key, its last-result
\* key, and what the last-result key holds after an outcome
MarketKeys ==
    [get_market_prices |->
        [commodity |-> "last_commodity_search",
         result |-> "last_search_result",
         holds |-> [success |-> "success", no_data |-> "no_data",
                    error |-> "error"]],
     get_price_analysis |->
        [commodity |-> "last_analysis_commodity",
         result |-> "last_analysis_result",
         holds |-> [success |-> <<"success">>,
                    insufficient_data |-> <<"insufficient_data">>,
                    error |-> "error"]],
     get_selling_advice |->
        [commodity |-> "last_advice_commodity",
         result |-> "last_advice_result",
         holds |-> [success |-> "advice", no_data |-> "no_data",
                    error |-> "error"]]]

\* C22: a call of get_market_prices, get_price_analysis or
\* get_selling_advice with a session context leaves, on every outcome, the
\* tool's last-commodity key equal to the commodity argument and its
\* last-result key holding that call's outcome; a call without a context
\* leaves the context as it was.
C22_MarketToolsRecordEveryOutcome ==
    [][call'.fn \in DOMAIN MarketKeys =>
        LET keys == MarketKeys[call'.fn]
        IN  IF call'.has_ctx
            THEN /\ tool_result'.status \in DOMAIN keys.holds
                 /\ tool_state'[keys.commodity] = Some(call'.commodity)
                 /\ tool_state'[keys.result]
                       = Some(keys.holds[tool_result'.status])
            ELSE tool_state' = tool_state]_vars

\* after a successful search for Onion, an analysis of Wheat that found too
\* little data is in the context, next to the search
C22_Witness ==
    /\ call.fn = "get_price_analysis" /\ call.has_ctx
    /\ tool_result.status = "insufficient_data"
    /\ tool_state.last_analysis_commodity = Some("Wheat")
    /\ tool_state.last_analysis_result = Some(<<"insufficient_data">>)
    /\ tool_state.last_commodity_search = Some("Onion")
    /\ tool_state.last_search_result = Some("success")

\* the requests and the sleeps of the page being fetched, as the seconds
\* slept (a request is 0)
Fetching == call.fn = "_fetch_market_data"
Waits(trace) ==
    [i \in DOMAIN trace |-> IF trace[i].ev = "sleep" THEN trace[i].v ELSE 0]

\* C24 (as claimed): a page whose requests keep failing is retried 3 times,
\* after waits of 2s, 4s and 6s, and is not requested again after the last
\* retry failed.
C24_ThreeRetriesAfter2s4s6s ==
    (Fetching /\ call.outcome = "failed") =>
        /\ Waits(call.trace) = <<0, 2, 0, 4, 0, 6, 0>>
        /\ call.pc \in {"date_loop", "done"}

\* C24 (amended): a page is requested at most 3 times, that is retried at
\* most twice, after waits of 2s and then 4s; after the third failure no
\* wait and no further request for that page follows.
C24_TwoRetriesAfter2s4s ==
    Fetching =>
        /\ \E n \in 0..5 : Waits(call.trace) = SubSeq(<<0, 2, 0, 4, 0>>, 1, n)
        /\ \A i \in DOMAIN call.trace :
              call.trace[i].ev = "request" => call.trace[i].v = call.trace[1].v
        /\ call.outcome = "failed" =>
              /\ Waits(call.trace) = <<0, 2, 0, 4, 0>>
              /\ call.pc \in {"date_loop", "done"}

\* the second page of a date failed three times, after waits of 2s and 4s
C24_Witness ==
    /\ Fetching /\ call.outcome = "failed"
    /\ call.trace = <<[ev |-> "request", v |-> PageLimit],
                      [ev |-> "sleep", v |-> 2],
                      [ev |-> "request", v |-> PageLimit],
                      [ev |-> "sleep", v |-> 4],
                      [ev |-> "request", v |-> PageLimit]>>

\* the pages in all_records that belong to date d
PagesOf(d) == SelectSeq(call.all_records, LAMBDA page : page.date = d)

\* C25: the fetch step visits the dates from now - days_back to now once
\* each, in ascending order; a date whose page request failed all its
\* attempts contributes the pages retrieved for it before, raises nothing,
\* and the next date is fetched.
C25_EveryDateVisitedFailedDatesSkipped ==
    Fetching =>
        LET first == call.end_date - call.days_back
        IN  /\ \A i \in DOMAIN call.visited : call.visited[i] = first + i - 1
            /\ Len(call.visited) <= call.days_back + 1
            /\ call.pc = "done" => Len(call.visited) = call.days_back + 1
            /\ \A i \in DOMAIN call.all_records :
                  /\ call.all_records[i].date \in Range(call.visited)
                  /\ \A j \in DOMAIN call.all_records :
                        i < j => call.all_records[i].date
                                    <= call.all_records[j].date
            /\ call.outcome = "failed" =>
                  /\ call.pc \in {"date_loop", "done"}
                  /\ call.current_date = call.visited[Len(call.visited)] + 1
                  /\ PagesOf(call.visited[Len(call.visited)]) = call.records
                  /\ \A i \in DOMAIN call.records :
                        call.records[i].n = PageLimit

\* the second page of the first date failed: its first page is kept, and
\* the second date was fetched after it
C25_Witness ==
    /\ Fetching /\ call.pc = "done" /\ call.days_back = 1
    /\ call.visited = <<today - 1, today>>
    /\ call.all_records
          = <<[date |-> today - 1, offset |-> 0, n |-> PageLimit],
              [date |-> today, offset |-> 0, n |-> 500]>>
    /\ call.remote[today - 1] = 1500

\* C26: the page loop of a date requests offsets 0, 1000, 2000, ... in
\* order and appends each page once; it returns at the first page that
\* holds fewer than 1,000 records, zero included, or whose attempts all
\* failed, and it always returns.
C26_PageLoopTerminates ==
    /\ [](Fetching /\ call.visited # <<>> =>
            LET size == call.remote[call.visited[Len(call.visited)]]
                last == (size \div PageLimit) * PageLimit
            IN  /\ \A i \in DOMAIN call.records :
                      /\ call.records[i].offset = (i - 1) * PageLimit
                      /\ call.records[i].n
                            = batch_records(size, (i - 1) * PageLimit)
                      /\ call.records[i].n > 0
                /\ call.pc = "request" =>
                      /\ call.offset = Len(call.records) * PageLimit
                      /\ call.offset <= last
                /\ call.outcome = "end" =>
                      /\ call.trace[Len(call.trace)].v = last
                      /\ Len(call.records)
                            = IF size > last THEN last \div PageLimit + 1
                              ELSE last \div PageLimit
                /\ call.outcome = "failed" =>
                      /\ call.trace[Len(call.trace)].v
                            = Len(call.records) * PageLimit
                      /\ \A i \in DOMAIN call.records :
                            call.records[i].n = PageLimit)
    /\ ((Fetching /\ call.pc = "request")
            ~> (Fetching /\ call.pc = "date_loop"))

\* a date of 2,000 records returned after its third page came back empty
C26_Witness ==
    /\ Fetching /\ call.outcome = "end"
    /\ call.records
          = <<[date |-> today, offset |-> 0, n |-> PageLimit],
              [date |-> today, offset |-> PageLimit, n |-> PageLimit]>>
    /\ call.trace = <<[ev |-> "request", v |-> 2 * PageLimit]>>

\* C23 (as claimed): the sync type a run records is "full" exactly when no
\* earlier run has a "success" entry or force_full_sync is set, and
\* "incremental" otherwise; the dates fetched are those of days_back,
\* whatever the label.
C23_FullExactlyWithoutPriorSuccess ==
    (call.fn = "sync_market_data" /\ Len(call.log) = Len(call.before) + 1) =>
        LET prior == \E i \in DOMAIN call.before :
                        call.before[i].status = "success"
        IN  /\ call.log[Len(call.log)].sync_type
                  = IF ~prior \/ call.ret.force THEN "full" ELSE "incremental"
            /\ call.ret.dates
                  = [i \in 1..(call.ret.days_back + 1) |->
                       today - call.ret.days_back + i - 1]

\* C23 (amended): a run that got as far as determining its sync type
\* records "full" exactly when no earlier run has a "success" entry or
\* force_full_sync is set, and "incremental" otherwise, and fetches the
\* dates of days_back whatever the label; a run that failed before that
\* (the session or the query of the last successful sync failed) records
\* "unknown" and fetches nothing.
C23_FullExactlyWithoutPriorSuccessOnceDetermined ==
    (call.fn = "sync_market_data" /\ Len(call.log) = Len(call.before) + 1) =>
        LET prior == \E i \in DOMAIN call.before :
                        call.before[i].status = "success"
            entry == call.log[Len(call.log)]
        IN  /\ SubSeq(call.log, 1, Len(call.before)) = call.before
            /\ IF call.ret.determined
               THEN /\ entry.sync_type
                          = IF ~prior \/ call.ret.force THEN "full"
                            ELSE "incremental"
                    /\ call.ret.dates
                          = [i \in 1..(call.ret.days_back + 1) |->
                               today - call.ret.days_back + i - 1]
               ELSE /\ entry.sync_type = "unknown"
                    /\ entry.status = "failed"
                    /\ call.ret.dates = <<>>

\* an unforced run after a failed one is recorded as "full" and fetched
\* yesterday and today
C23_Witness ==
    /\ call.fn = "sync_market_data" /\ Len(call.log) = 2
    /\ call.log[1].status = "failed"
    /\ call.log[2].status = "success" /\ call.log[2].sync_type = "full"
    /\ ~call.ret.force
    /\ call.ret.dates = <<today - 1, today>>

\* rows added or updated in the session and not committed
Uncommitted == pending[1] + pending[2] + store_call.dirty

\* C27: the store step commits each time inserted + updated reaches a
\* multiple of 50 and once more after the last record: never more than 50
\* upserted rows are uncommitted, none is when the call returns, and
\* committed rows stay stored whatever fails later.
C27_BatchCommits ==
    /\ [](/\ Uncommitted <= BatchSize
          /\ (storing /\ (stats.inserted + stats.updated) % BatchSize = 0)
                => Uncommitted = 0
          /\ store_call.ret = "returned" => Uncommitted = 0)
    /\ [][\A k \in Keys : market_prices'[k] >= market_prices[k]]_vars

\* 51 records were upserted in one call: the batch commit stored the rows
\* of the first 50, the update made for the 51st waits for the final commit
C27_Witness ==
    /\ storing /\ store_call.given = BatchSize + 1
    /\ stats.inserted = BatchSize /\ stats.updated = 1
    /\ market_prices[1] = BatchSize
    /\ Uncommitted = 1

\* C28 (as claimed): when _process_and_store_data returns, inserted +
\* updated + skipped equals the number of records it was given, also when
\* cleaning, the existence query or a batch commit failed for some record.
C28_EveryRecordCountedOnce ==
    store_call.ret = "returned" =>
        stats.inserted + stats.updated + stats.skipped = store_call.given

\* a run whose fetch step was reached and gave no record
FetchedNothing ==
    /\ call.fn = "sync_market_data"
    /\ call.ret.steps # <<>> /\ call.fetched = 0

\* C29 (as claimed): a run whose fetch step returns no records raises,
\* appends a "failed" audit entry and leaves the stored rows as they were:
\* it enters neither the store step, nor the trend recalculation, nor the
\* analytics regeneration.
C29_NoDataFailsAndChangesNothing ==
    FetchedNothing =>
        /\ call.ret.status = "raised"
        /\ call.ret.steps = <<"fetch">>
        /\ call.rows = call.rows_before
        /\ Len(call.log) = Len(call.before) + 1
        /\ call.log[Len(call.log)].status = "failed"

\* C29 (amended): a run whose fetch step returns no records raises and
\* leaves the stored rows as they were: it enters neither the store step,
\* nor the trend recalculation, nor the analytics regeneration.  It appends
\* a "failed" audit entry, unless the write of that entry fails too, and
\* then the audit log is left as it was.
C29_NoDataFailsAndChangesNoRow ==
    FetchedNothing =>
        /\ call.ret.status = "raised"
        /\ call.ret.steps = <<"fetch">>
        /\ call.rows = call.rows_before
        /\ IF call.ret.log_write_failed THEN call.log = call.before
           ELSE /\ Len(call.log) = Len(call.before) + 1
                /\ SubSeq(call.log, 1, Len(call.before)) = call.before
                /\ call.log[Len(call.log)].status = "failed"

\* after a run that stored a row, a run that fetched nothing failed and
\* left the row
C29_Witness ==
    /\ FetchedNothing
    /\ call.rows_before # ZeroRows /\ call.rows = call.rows_before
    /\ Len(call.log) = 2
    /\ call.log[1].status = "success" /\ call.log[2].status = "failed"

====
